---- MODULE Spec2Model ----
(***************************************************************************)
(* A model of the CPU simulator: the execution engine (src/src/cpu.rs),    *)
(* the set-associative LRU cache (src/src/cache.rs) and the backing memory *)
(* (src/src/memory.rs).                                                    *)
(*                                                                         *)
(* 32-bit words.  TLC's integers are 32-bit signed, so a u32 is kept as    *)
(* its two 16-bit halves [hi, lo] (value = hi * 65536 + lo); every         *)
(* operation on words below is the exact 32-bit operation of the source    *)
(* written on the halves.                                                  *)
(***************************************************************************)
EXTENDS Integers, Sequences, FiniteSets, TLC

VARIABLES
    cpu,      \* CPU { registers, pc, cycle, halted }          cpu.rs:11-16
    memory,   \* Memory { data, kinds }                        memory.rs:11-14
    cache,    \* Cache { sets, num_sets, blocks_per_set,
              \*         access_counter, hits, misses }        cache.rs:18-25
    panicked, \* the process was aborted by a panic in the last call
    calls,    \* history: the calls the driver made, with what they returned
    pre,      \* history: cpu, memory and cache as they were before the last call
    twin      \* a second run on the same input with another cache, or NoTwin

vars == <<cpu, memory, cache, panicked, calls, pre, twin>>

\* the value of twin in the runs that have no second run alongside
NoTwin == "none"

----------------------------------------------------------------------------
(* Bounds of the model *)

\* longest program loaded at addresses 0 .. ProgLen-1
ProgLen == 3
\* number of step calls the driver makes in one run
MaxCalls == 5
\* number of read / write calls the cache-only driver makes in one run
MaxCacheCalls == 4
\* number of step calls made on a single instruction and its reader
ExecCalls == 2

----------------------------------------------------------------------------
(* 32-bit words as two 16-bit halves *)

\* the u32 of a small natural number n < 2^31
W(n) == [hi |-> n \div 65536, lo |-> n % 65536]

\* u32::wrapping_add
wrapping_add(a, b) ==
    LET lo == a.lo + b.lo
        hi == a.hi + b.hi + (lo \div 65536)
    IN  [hi |-> hi % 65536, lo |-> lo % 65536]

\* u32::wrapping_sub
wrapping_sub(a, b) ==
    LET lo == a.lo - b.lo
        hi == a.hi - b.hi - (IF lo < 0 THEN 1 ELSE 0)
    IN  [hi |-> hi % 65536, lo |-> lo % 65536]

\* (a as i32) < (b as i32)
lt_as_i32(a, b) ==
    LET shi(x) == IF x.hi >= 32768 THEN x.hi - 65536 ELSE x.hi
    IN  \/ shi(a) < shi(b)
        \/ shi(a) = shi(b) /\ a.lo < b.lo

\* (v as u16) as i16 : the signed value of a 16-bit pattern
as_i16(v) == IF v >= 32768 THEN v - 65536 ELSE v

\* (i as u32) for an i16 i : sign extension to 32 bits
i16_as_u32(i) == [hi |-> IF i < 0 THEN 65535 ELSE 0, lo |-> i % 65536]

\* (w & 0xFF) as u8
low8(w) == w.lo % 256

\* u8::saturating_add in the place of wrapping_add
saturating_add_u8(a, b) == IF a + b > 255 THEN 255 ELSE a + b

\* u8::wrapping_add
wrapping_add_u8(a, b) == (a + b) % 256

----------------------------------------------------------------------------
(* Instruction parsing helpers, cpu.rs:28-55 *)

\* ((instruction >> 26) & 0x3F) as u8
opcode(instruction) == (instruction.hi \div 1024) % 64

\* ((instruction >> 21) & 0x1F) as u8
rs(instruction) == (instruction.hi \div 32) % 32

\* ((instruction >> 16) & 0x1F) as u8
rt(instruction) == instruction.hi % 32

\* rd taken one bit too high: (instruction >> 12) & 0x1F
rd_shifted_by_12(instruction) == (instruction.lo \div 4096) % 32

\* ((instruction >> 11) & 0x1F) as u8
rd(instruction) == (instruction.lo \div 2048) % 32

\* ((instruction >> 6) & 0x1F) as u8
shamt(instruction) == (instruction.lo \div 64) % 32

\* (instruction & 0x3F) as u8
funct(instruction) == instruction.lo % 64

\* (instruction & 0xFFFF) as u16
imm(instruction) == instruction.lo

\* the mnemonic translate_to_assembly prints, without the operands
translate_to_assembly(instruction) ==
    CASE opcode(instruction) = 0 ->
            (CASE funct(instruction) = 32 -> "ADD"
               [] funct(instruction) = 34 -> "SUB"
               [] funct(instruction) = 42 -> "SLT"
               [] OTHER -> "R-type")
      [] opcode(instruction) = 8  -> "ADDI"
      [] opcode(instruction) = 4  -> "BEQ"
      [] opcode(instruction) = 35 -> "LW"
      [] opcode(instruction) = 43 -> "SW"
      [] OTHER -> "Unknown"

(* Instruction encoders of the front end, gui.rs:92-99 *)

build_r_type(op, s, t, d, sh, fn) ==
    [hi |-> op * 1024 + s * 32 + t, lo |-> d * 2048 + sh * 64 + fn]

build_i_type(op, s, t, im) ==
    [hi |-> op * 1024 + s * 32 + t, lo |-> im]

----------------------------------------------------------------------------
(* Backing memory, memory.rs *)

\* HashMap::insert on a map kept as a function on its key set
insert(map, key, value) ==
    [k \in (DOMAIN map) \cup {key} |-> IF k = key THEN value ELSE map[k]]

\* the empty map
EmptyMap == [k \in {} |-> 0]

\* Memory::new
Memory_new == [data |-> EmptyMap, kinds |-> EmptyMap]

\* one accepted line of read_start_data: the word and its Data tag
read_start_data(mem, address, value) ==
    [data  |-> insert(mem.data, address, value),
     kinds |-> insert(mem.kinds, address, "Data")]

\* one accepted line of read_start_instructions: the word and its Instruction tag
read_start_instructions(mem, address, instruction) ==
    [data  |-> insert(mem.data, address, instruction),
     kinds |-> insert(mem.kinds, address, "Instruction")]

----------------------------------------------------------------------------
(* Cache simulator, cache.rs *)

\* Cache::new
Cache_new(num_sets, blocks_per_set) ==
    [sets |-> [i \in {j % 256 : j \in 0 .. num_sets - 1} |->
                  [blocks |-> <<>>, capacity |-> blocks_per_set]],
     num_sets |-> num_sets,
     blocks_per_set |-> blocks_per_set,
     access_counter |-> 0,
     hits |-> 0,
     misses |-> 0]

\* Cache::get_tag_and_set : (tag, set_idx), with num_sets truncated to a u8
get_tag_and_set(c, addr) ==
    LET n == c.num_sets % 256
    IN  [tag |-> addr \div n, set_idx |-> addr % n]

\* get_tag_and_set panics: num_sets as u8 is 0, and addr % 0 (cache.rs:49)
\* is a division by zero, which aborts in every build
get_tag_and_set_panics(c) == c.num_sets % 256 = 0

\* the first block of the sequence that is valid and carries the tag, or 0
find_block(blocks, tag) ==
    LET found == {i \in 1 .. Len(blocks) : blocks[i].valid /\ blocks[i].tag = tag}
    IN  IF found = {} THEN 0
        ELSE CHOOSE i \in found : \A j \in found : i <= j

\* a read that does not count its misses (without cache.rs:73)
read_miss_not_counted(c, addr) ==
    LET access_counter == c.access_counter + 1
        ts == get_tag_and_set(c, addr)
        idx == IF ts.set_idx \in DOMAIN c.sets
               THEN find_block(c.sets[ts.set_idx].blocks, ts.tag)
               ELSE 0
    IN  IF idx # 0
        THEN [cache |-> [c EXCEPT !.access_counter = access_counter,
                                  !.sets[ts.set_idx].blocks[idx].last_used = access_counter,
                                  !.hits = @ + 1],
              data |-> c.sets[ts.set_idx].blocks[idx].data,
              hit |-> TRUE]
        ELSE [cache |-> [c EXCEPT !.access_counter = access_counter],
              data |-> W(0),
              hit |-> FALSE]

\* a read whose hit does not refresh last_used (without cache.rs:64)
read_hit_no_refresh(c, addr) ==
    LET access_counter == c.access_counter + 1
        ts == get_tag_and_set(c, addr)
        idx == IF ts.set_idx \in DOMAIN c.sets
               THEN find_block(c.sets[ts.set_idx].blocks, ts.tag)
               ELSE 0
    IN  IF idx # 0
        THEN [cache |-> [c EXCEPT !.access_counter = access_counter,
                                  !.hits = @ + 1],
              data |-> c.sets[ts.set_idx].blocks[idx].data,
              hit |-> TRUE]
        ELSE [cache |-> [c EXCEPT !.access_counter = access_counter,
                                  !.misses = @ + 1],
              data |-> W(0),
              hit |-> FALSE]

\* a read that on a miss allocates an empty block for the address in a set
\* that has room
read_miss_allocates(c, addr) ==
    LET access_counter == c.access_counter + 1
        ts == get_tag_and_set(c, addr)
        idx == IF ts.set_idx \in DOMAIN c.sets
               THEN find_block(c.sets[ts.set_idx].blocks, ts.tag)
               ELSE 0
        room == /\ ts.set_idx \in DOMAIN c.sets
                /\ Len(c.sets[ts.set_idx].blocks) < c.sets[ts.set_idx].capacity
    IN  IF idx # 0
        THEN [cache |-> [c EXCEPT !.access_counter = access_counter,
                                  !.sets[ts.set_idx].blocks[idx].last_used = access_counter,
                                  !.hits = @ + 1],
              data |-> c.sets[ts.set_idx].blocks[idx].data,
              hit |-> TRUE]
        ELSE [cache |-> [c EXCEPT !.access_counter = access_counter,
                                  !.sets[ts.set_idx].blocks =
                                      IF room
                                      THEN Append(@, [tag |-> ts.tag, data |-> W(0),
                                                      valid |-> FALSE,
                                                      last_used |-> access_counter])
                                      ELSE @,
                                  !.misses = @ + 1],
              data |-> W(0),
              hit |-> FALSE]

\* Cache::read : the cache after the call, the data returned and the hit flag
read(c, addr) ==
    LET access_counter == c.access_counter + 1
        ts == get_tag_and_set(c, addr)
        idx == IF ts.set_idx \in DOMAIN c.sets
               THEN find_block(c.sets[ts.set_idx].blocks, ts.tag)
               ELSE 0
    IN  IF idx # 0
        THEN [cache |-> [c EXCEPT !.access_counter = access_counter,
                                  !.sets[ts.set_idx].blocks[idx].last_used = access_counter,
                                  !.hits = @ + 1],
              data |-> c.sets[ts.set_idx].blocks[idx].data,
              hit |-> TRUE]
        ELSE [cache |-> [c EXCEPT !.access_counter = access_counter,
                                  !.misses = @ + 1],
              data |-> W(0),
              hit |-> FALSE]

\* a scan that keeps the block used last instead of the one used first
RECURSIVE lru_scan_most_recent(_, _, _, _)
lru_scan_most_recent(blocks, idx, lru_idx, min_last_used) ==
    IF idx > Len(blocks) THEN lru_idx
    ELSE IF min_last_used = -1 \/ blocks[idx].last_used > min_last_used
         THEN lru_scan_most_recent(blocks, idx + 1, idx, blocks[idx].last_used)
         ELSE lru_scan_most_recent(blocks, idx + 1, lru_idx, min_last_used)

\* the scan of cache.rs:112-120 from block idx on: the index (from 1) of the
\* first block whose last_used is strictly below every earlier one.  The
\* initial min_last_used = u64::MAX is beyond TLC's integers: -1 stands for
\* it, and every last_used (at most access_counter) is below it
RECURSIVE lru_scan(_, _, _, _)
lru_scan(blocks, idx, lru_idx, min_last_used) ==
    IF idx > Len(blocks) THEN lru_idx
    ELSE IF min_last_used = -1 \/ blocks[idx].last_used < min_last_used
         THEN lru_scan(blocks, idx + 1, idx, blocks[idx].last_used)
         ELSE lru_scan(blocks, idx + 1, lru_idx, min_last_used)

\* a write that, finding the block, refreshes last_used but keeps the old data
write_keeps_data(c, addr, data) ==
    LET access_counter == c.access_counter + 1
        ts == get_tag_and_set(c, addr)
        set == IF ts.set_idx \in DOMAIN c.sets
               THEN c.sets[ts.set_idx]
               ELSE [blocks |-> <<>>, capacity |-> c.blocks_per_set]
        idx == find_block(set.blocks, ts.tag)
        block == [tag |-> ts.tag, data |-> data, valid |-> TRUE,
                  last_used |-> access_counter]
        blocks ==
            IF idx # 0
            THEN [set.blocks EXCEPT ![idx].last_used = access_counter]
            ELSE IF Len(set.blocks) < set.capacity
                 THEN Append(set.blocks, block)
                 ELSE [set.blocks EXCEPT
                          ![lru_scan(set.blocks, 1, 1, -1)] = block]
    IN  [c EXCEPT !.access_counter = access_counter,
                  !.sets = insert(c.sets, ts.set_idx,
                                  [blocks |-> blocks, capacity |-> set.capacity])]

\* a write that, not finding the block, always pushes a new one (without the
\* capacity test of cache.rs:102)
write_always_pushes(c, addr, data) ==
    LET access_counter == c.access_counter + 1
        ts == get_tag_and_set(c, addr)
        set == IF ts.set_idx \in DOMAIN c.sets
               THEN c.sets[ts.set_idx]
               ELSE [blocks |-> <<>>, capacity |-> c.blocks_per_set]
        idx == find_block(set.blocks, ts.tag)
        block == [tag |-> ts.tag, data |-> data, valid |-> TRUE,
                  last_used |-> access_counter]
        blocks ==
            IF idx # 0
            THEN [set.blocks EXCEPT ![idx].data = data,
                                    ![idx].last_used = access_counter]
            ELSE Append(set.blocks, block)
    IN  [c EXCEPT !.access_counter = access_counter,
                  !.sets = insert(c.sets, ts.set_idx,
                                  [blocks |-> blocks, capacity |-> set.capacity])]

\* a write that tests the capacity before it looks for the block: on a full
\* set it replaces the least recently used block even when the tag is there
write_replaces_when_full(c, addr, data) ==
    LET access_counter == c.access_counter + 1
        ts == get_tag_and_set(c, addr)
        set == IF ts.set_idx \in DOMAIN c.sets
               THEN c.sets[ts.set_idx]
               ELSE [blocks |-> <<>>, capacity |-> c.blocks_per_set]
        idx == find_block(set.blocks, ts.tag)
        block == [tag |-> ts.tag, data |-> data, valid |-> TRUE,
                  last_used |-> access_counter]
        blocks ==
            IF Len(set.blocks) >= set.capacity
            THEN [set.blocks EXCEPT ![lru_scan(set.blocks, 1, 1, -1)] = block]
            ELSE IF idx # 0
                 THEN [set.blocks EXCEPT ![idx].data = data,
                                         ![idx].last_used = access_counter]
                 ELSE Append(set.blocks, block)
    IN  [c EXCEPT !.access_counter = access_counter,
                  !.sets = insert(c.sets, ts.set_idx,
                                  [blocks |-> blocks, capacity |-> set.capacity])]

\* a write that, updating a block in place, does not advance the clock
write_update_not_counted(c, addr, data) ==
    LET ts == get_tag_and_set(c, addr)
        set == IF ts.set_idx \in DOMAIN c.sets
               THEN c.sets[ts.set_idx]
               ELSE [blocks |-> <<>>, capacity |-> c.blocks_per_set]
        idx == find_block(set.blocks, ts.tag)
        access_counter == IF idx # 0 THEN c.access_counter ELSE c.access_counter + 1
        block == [tag |-> ts.tag, data |-> data, valid |-> TRUE,
                  last_used |-> access_counter]
        blocks ==
            IF idx # 0
            THEN [set.blocks EXCEPT ![idx].data = data,
                                    ![idx].last_used = access_counter]
            ELSE IF Len(set.blocks) < set.capacity
                 THEN Append(set.blocks, block)
                 ELSE [set.blocks EXCEPT
                          ![lru_scan(set.blocks, 1, 1, -1)] = block]
    IN  [c EXCEPT !.access_counter = access_counter,
                  !.sets = insert(c.sets, ts.set_idx,
                                  [blocks |-> blocks, capacity |-> set.capacity])]

\* a write that stamps a new block with the clock as it was before the call
write_stamps_old_clock(c, addr, data) ==
    LET access_counter == c.access_counter + 1
        ts == get_tag_and_set(c, addr)
        set == IF ts.set_idx \in DOMAIN c.sets
               THEN c.sets[ts.set_idx]
               ELSE [blocks |-> <<>>, capacity |-> c.blocks_per_set]
        idx == find_block(set.blocks, ts.tag)
        block == [tag |-> ts.tag, data |-> data, valid |-> TRUE,
                  last_used |-> c.access_counter]
        blocks ==
            IF idx # 0
            THEN [set.blocks EXCEPT ![idx].data = data,
                                    ![idx].last_used = access_counter]
            ELSE IF Len(set.blocks) < set.capacity
                 THEN Append(set.blocks, block)
                 ELSE [set.blocks EXCEPT
                          ![lru_scan(set.blocks, 1, 1, -1)] = block]
    IN  [c EXCEPT !.access_counter = access_counter,
                  !.sets = insert(c.sets, ts.set_idx,
                                  [blocks |-> blocks, capacity |-> set.capacity])]

\* a write that, in a set with room, pushes the block without looking for
\* its tag first
write_no_lookup_when_room(c, addr, data) ==
    LET access_counter == c.access_counter + 1
        ts == get_tag_and_set(c, addr)
        set == IF ts.set_idx \in DOMAIN c.sets
               THEN c.sets[ts.set_idx]
               ELSE [blocks |-> <<>>, capacity |-> c.blocks_per_set]
        idx == find_block(set.blocks, ts.tag)
        block == [tag |-> ts.tag, data |-> data, valid |-> TRUE,
                  last_used |-> access_counter]
        blocks ==
            IF Len(set.blocks) < set.capacity
            THEN Append(set.blocks, block)
            ELSE IF idx # 0
                 THEN [set.blocks EXCEPT ![idx].data = data,
                                         ![idx].last_used = access_counter]
                 ELSE [set.blocks EXCEPT
                          ![lru_scan(set.blocks, 1, 1, -1)] = block]
    IN  [c EXCEPT !.access_counter = access_counter,
                  !.sets = insert(c.sets, ts.set_idx,
                                  [blocks |-> blocks, capacity |-> set.capacity])]

\* Cache::write : the cache after the call
write(c, addr, data) ==
    LET access_counter == c.access_counter + 1
        ts == get_tag_and_set(c, addr)
        set == IF ts.set_idx \in DOMAIN c.sets
               THEN c.sets[ts.set_idx]
               ELSE [blocks |-> <<>>, capacity |-> c.blocks_per_set]
        idx == find_block(set.blocks, ts.tag)
        block == [tag |-> ts.tag, data |-> data, valid |-> TRUE,
                  last_used |-> access_counter]
        blocks ==
            IF idx # 0
            THEN [set.blocks EXCEPT ![idx].data = data,
                                    ![idx].last_used = access_counter]
            ELSE IF Len(set.blocks) < set.capacity
                 THEN Append(set.blocks, block)
                 ELSE [set.blocks EXCEPT
                          ![lru_scan(set.blocks, 1, 1, -1)] = block]
    IN  [c EXCEPT !.access_counter = access_counter,
                  !.sets = insert(c.sets, ts.set_idx,
                                  [blocks |-> blocks, capacity |-> set.capacity])]

\* Cache::get_hit_rate as the fraction <<numerator, denominator>>
get_hit_rate(c) ==
    LET total == c.hits + c.misses
    IN  IF total > 0 THEN <<c.hits, total>> ELSE <<0, 1>>

----------------------------------------------------------------------------
(* Execution engine, cpu.rs *)

\* CPU::new
CPU_new ==
    [registers |-> [r \in 0 .. 31 |-> W(0)], pc |-> 0, cycle |-> 0, halted |-> FALSE]

\* ADD that writes its sum to reg[rt] instead of reg[rd]
step_ADD_into_rt(c, mem, ch, instruction) ==
    [cpu |-> [c EXCEPT !.registers[rt(instruction)] =
                           wrapping_add(c.registers[rs(instruction)],
                                        c.registers[rt(instruction)]),
                       !.pc = wrapping_add_u8(c.pc, 1)],
     memory |-> mem, cache |-> ch]

\* ADD arm, cpu.rs:119-133
step_ADD(c, mem, ch, instruction) ==
    [cpu |-> [c EXCEPT !.registers[rd(instruction)] =
                           wrapping_add(c.registers[rs(instruction)],
                                        c.registers[rt(instruction)]),
                       !.pc = wrapping_add_u8(c.pc, 1)],
     memory |-> mem, cache |-> ch]

\* SUB that saturates at 0 instead of wrapping
step_SUB_saturating(c, mem, ch, instruction) ==
    LET a == c.registers[rs(instruction)]
        b == c.registers[rt(instruction)]
        below == a.hi < b.hi \/ (a.hi = b.hi /\ a.lo < b.lo)
    IN  [cpu |-> [c EXCEPT !.registers[rd(instruction)] =
                               IF below THEN W(0) ELSE wrapping_sub(a, b),
                           !.pc = wrapping_add_u8(c.pc, 1)],
         memory |-> mem, cache |-> ch]

\* SUB arm, cpu.rs:134-148
step_SUB(c, mem, ch, instruction) ==
    [cpu |-> [c EXCEPT !.registers[rd(instruction)] =
                           wrapping_sub(c.registers[rs(instruction)],
                                        c.registers[rt(instruction)]),
                       !.pc = wrapping_add_u8(c.pc, 1)],
     memory |-> mem, cache |-> ch]

\* SLT that compares the registers as unsigned
step_SLT_unsigned(c, mem, ch, instruction) ==
    LET a == c.registers[rs(instruction)]
        b == c.registers[rt(instruction)]
        below == a.hi < b.hi \/ (a.hi = b.hi /\ a.lo < b.lo)
    IN  [cpu |-> [c EXCEPT !.registers[rd(instruction)] =
                               IF below THEN W(1) ELSE W(0),
                           !.pc = wrapping_add_u8(c.pc, 1)],
         memory |-> mem, cache |-> ch]

\* SLT arm, cpu.rs:149-168
step_SLT(c, mem, ch, instruction) ==
    [cpu |-> [c EXCEPT !.registers[rd(instruction)] =
                           IF lt_as_i32(c.registers[rs(instruction)],
                                        c.registers[rt(instruction)])
                           THEN W(1) ELSE W(0),
                       !.pc = wrapping_add_u8(c.pc, 1)],
     memory |-> mem, cache |-> ch]

\* an unsupported instruction that halts the engine where it stands
step_unsupported_halts(c, mem, ch, instruction) ==
    [cpu |-> [c EXCEPT !.halted = TRUE],
     memory |-> mem, cache |-> ch]

\* unsupported R-type function and unsupported opcode, cpu.rs:169-172, 275-278
step_unsupported(c, mem, ch, instruction) ==
    [cpu |-> [c EXCEPT !.pc = wrapping_add_u8(c.pc, 1)],
     memory |-> mem, cache |-> ch]

\* ADDI that zero-extends its immediate
step_ADDI_zero_extends(c, mem, ch, instruction) ==
    [cpu |-> [c EXCEPT !.registers[rt(instruction)] =
                           wrapping_add(c.registers[rs(instruction)],
                                        W(imm(instruction))),
                       !.pc = wrapping_add_u8(c.pc, 1)],
     memory |-> mem, cache |-> ch]

\* ADDI arm, cpu.rs:175-183
step_ADDI(c, mem, ch, instruction) ==
    [cpu |-> [c EXCEPT !.registers[rt(instruction)] =
                           wrapping_add(c.registers[rs(instruction)],
                                        i16_as_u32(as_i16(imm(instruction)))),
                       !.pc = wrapping_add_u8(c.pc, 1)],
     memory |-> mem, cache |-> ch]

\* BEQ arm, cpu.rs:184-218
step_BEQ(c, mem, ch, instruction) ==
    LET off == as_i16(imm(instruction))
        equal == c.registers[rs(instruction)] = c.registers[rt(instruction)]
        pc == IF off < 0
              THEN IF equal
                   THEN (c.pc + 1 + off) % 256            \* (pc as i16 + 1 + imm) as u8
                   ELSE wrapping_add_u8(c.pc, 1)
              ELSE IF equal
                   THEN wrapping_add_u8(wrapping_add_u8(c.pc, 1), off % 256)
                   ELSE wrapping_add_u8(c.pc, 1)
    IN  [cpu |-> [c EXCEPT !.pc = pc], memory |-> mem, cache |-> ch]

\* the effective address of LW and SW, cpu.rs:221 and 262
effective_address(c, instruction) ==
    low8(wrapping_add(c.registers[rs(instruction)],
                      i16_as_u32(as_i16(imm(instruction)))))

\* LW that, missing the cache on an address memory has, loads the register
\* but does not fill the cache
step_LW_no_fill_when_present(c, mem, ch, instruction) ==
    LET addr == effective_address(c, instruction)
        r == read(ch, addr)
    IN  IF r.hit
        THEN [cpu |-> [c EXCEPT !.registers[rt(instruction)] = r.data,
                                !.pc = wrapping_add_u8(c.pc, 1)],
              memory |-> mem,
              cache |-> r.cache]
        ELSE IF addr \in DOMAIN mem.data
        THEN [cpu |-> [c EXCEPT !.registers[rt(instruction)] = mem.data[addr],
                                !.pc = wrapping_add_u8(c.pc, 1)],
              memory |-> mem,
              cache |-> r.cache]
        ELSE [cpu |-> [c EXCEPT !.registers[rt(instruction)] = W(0),
                                !.pc = wrapping_add_u8(c.pc, 1)],
              memory |-> [mem EXCEPT !.data = insert(mem.data, addr, W(0))],
              cache |-> write(r.cache, addr, W(0))]

\* LW that, finding the address absent from memory, creates it there but does
\* not fill the cache
step_LW_no_fill_when_absent(c, mem, ch, instruction) ==
    LET addr == effective_address(c, instruction)
        r == read(ch, addr)
    IN  IF r.hit
        THEN [cpu |-> [c EXCEPT !.registers[rt(instruction)] = r.data,
                                !.pc = wrapping_add_u8(c.pc, 1)],
              memory |-> mem,
              cache |-> r.cache]
        ELSE IF addr \in DOMAIN mem.data
        THEN [cpu |-> [c EXCEPT !.registers[rt(instruction)] = mem.data[addr],
                                !.pc = wrapping_add_u8(c.pc, 1)],
              memory |-> mem,
              cache |-> write(r.cache, addr, mem.data[addr])]
        ELSE [cpu |-> [c EXCEPT !.registers[rt(instruction)] = W(0),
                                !.pc = wrapping_add_u8(c.pc, 1)],
              memory |-> [mem EXCEPT !.data = insert(mem.data, addr, W(0))],
              cache |-> r.cache]

\* LW arm, cpu.rs:219-259
step_LW(c, mem, ch, instruction) ==
    LET addr == effective_address(c, instruction)
        r == read(ch, addr)
    IN  IF r.hit
        THEN [cpu |-> [c EXCEPT !.registers[rt(instruction)] = r.data,
                                !.pc = wrapping_add_u8(c.pc, 1)],
              memory |-> mem,
              cache |-> r.cache]
        ELSE IF addr \in DOMAIN mem.data
        THEN [cpu |-> [c EXCEPT !.registers[rt(instruction)] = mem.data[addr],
                                !.pc = wrapping_add_u8(c.pc, 1)],
              memory |-> mem,
              cache |-> write(r.cache, addr, mem.data[addr])]
        ELSE [cpu |-> [c EXCEPT !.registers[rt(instruction)] = W(0),
                                !.pc = wrapping_add_u8(c.pc, 1)],
              memory |-> [mem EXCEPT !.data = insert(mem.data, addr, W(0))],
              cache |-> write(r.cache, addr, W(0))]

\* SW that stores reg[rs] instead of reg[rt]
step_SW_stores_rs(c, mem, ch, instruction) ==
    LET addr == effective_address(c, instruction)
        data == c.registers[rs(instruction)]
    IN  [cpu |-> [c EXCEPT !.pc = wrapping_add_u8(c.pc, 1)],
         memory |-> [mem EXCEPT !.data = insert(mem.data, addr, data)],
         cache |-> write(ch, addr, data)]

\* SW that stores to memory only, without the write to the cache
step_SW_memory_only(c, mem, ch, instruction) ==
    LET addr == effective_address(c, instruction)
        data == c.registers[rt(instruction)]
    IN  [cpu |-> [c EXCEPT !.pc = wrapping_add_u8(c.pc, 1)],
         memory |-> [mem EXCEPT !.data = insert(mem.data, addr, data)],
         cache |-> ch]

\* SW arm, cpu.rs:260-274
step_SW(c, mem, ch, instruction) ==
    LET addr == effective_address(c, instruction)
        data == c.registers[rt(instruction)]
    IN  [cpu |-> [c EXCEPT !.pc = wrapping_add_u8(c.pc, 1)],
         memory |-> [mem EXCEPT !.data = insert(mem.data, addr, data)],
         cache |-> write(ch, addr, data)]

\* the word step fetches, cpu.rs:100-101
fetch(c, mem) == IF c.pc \in DOMAIN mem.data THEN mem.data[c.pc] ELSE W(0)

\* an execute whose instruction fetch went through the cache, as a read of
\* the address in PC
execute_fetch_through_cache(c, mem, ch, instruction) ==
    LET through == read(ch, c.pc).cache
    IN  CASE opcode(instruction) = 0 ->
                (CASE funct(instruction) = 32 -> step_ADD(c, mem, through, instruction)
                   [] funct(instruction) = 34 -> step_SUB(c, mem, through, instruction)
                   [] funct(instruction) = 42 -> step_SLT(c, mem, through, instruction)
                   [] OTHER -> step_unsupported(c, mem, through, instruction))
          [] opcode(instruction) = 8  -> step_ADDI(c, mem, through, instruction)
          [] opcode(instruction) = 4  -> step_BEQ(c, mem, through, instruction)
          [] opcode(instruction) = 35 -> step_LW(c, mem, through, instruction)
          [] opcode(instruction) = 43 -> step_SW(c, mem, through, instruction)
          [] OTHER -> step_unsupported(c, mem, through, instruction)

\* the match of cpu.rs:115-279
execute(c, mem, ch, instruction) ==
    CASE opcode(instruction) = 0 ->
            (CASE funct(instruction) = 32 -> step_ADD(c, mem, ch, instruction)
               [] funct(instruction) = 34 -> step_SUB(c, mem, ch, instruction)
               [] funct(instruction) = 42 -> step_SLT(c, mem, ch, instruction)
               [] OTHER -> step_unsupported(c, mem, ch, instruction))
      [] opcode(instruction) = 8  -> step_ADDI(c, mem, ch, instruction)
      [] opcode(instruction) = 4  -> step_BEQ(c, mem, ch, instruction)
      [] opcode(instruction) = 35 -> step_LW(c, mem, ch, instruction)
      [] opcode(instruction) = 43 -> step_SW(c, mem, ch, instruction)
      [] OTHER -> step_unsupported(c, mem, ch, instruction)

\* a halt check that also takes the word 0 at the new PC for the end
finish_halts_on_zero_word(r) ==
    [r EXCEPT !.cpu.cycle = @ + 1,
              !.cpu.halted = IF \/ r.cpu.pc \notin DOMAIN r.memory.data
                                \/ r.memory.data[r.cpu.pc] = W(0)
                             THEN TRUE ELSE @]

\* a halt check that looks for a kind tag at the new PC instead of a word
finish_by_kind(r) ==
    [r EXCEPT !.cpu.cycle = @ + 1,
              !.cpu.halted = IF r.cpu.pc \notin DOMAIN r.memory.kinds THEN TRUE ELSE @]

\* the cycle update and the halt check, cpu.rs:281-288
finish(r) ==
    [r EXCEPT !.cpu.cycle = @ + 1,
              !.cpu.halted = IF r.cpu.pc \notin DOMAIN r.memory.data THEN TRUE ELSE @]

\* a step without the halted guard of cpu.rs:95-97
step_without_guard(c, mem, ch) == finish(execute(c, mem, ch, fetch(c, mem)))

\* CPU::step : cpu, memory and cache after the call
step(c, mem, ch) ==
    IF c.halted
    THEN [cpu |-> c, memory |-> mem, cache |-> ch]
    ELSE finish(execute(c, mem, ch, fetch(c, mem)))

\* the BEQ arm prints -imm (cpu.rs:196-197) before it compares the registers:
\* for imm = i16::MIN the negation overflows, which panics in a build with
\* overflow checks (the debug profile) and wraps in one without (release)
BEQ_negate_overflows(instruction) ==
    opcode(instruction) = 4 /\ as_i16(imm(instruction)) = -32768

\* the outcomes of a call of CPU::step in the builds of the program: the state
\* step returns, and a panic where a build panics (the state is then left as
\* it was: the process is gone)
step_outcomes(c, mem, ch) ==
    LET instruction == fetch(c, mem)
        divides_by_zero == /\ ~c.halted
                           /\ opcode(instruction) \in {35, 43}
                           /\ get_tag_and_set_panics(ch)
        overflows == ~c.halted /\ BEQ_negate_overflows(instruction)
        r == step(c, mem, ch)
    IN  (IF divides_by_zero THEN {}
         ELSE {[panicked |-> FALSE, cpu |-> r.cpu, memory |-> r.memory,
                cache |-> r.cache]})
        \cup
        (IF divides_by_zero \/ overflows
         THEN {[panicked |-> TRUE, cpu |-> c, memory |-> mem, cache |-> ch]}
         ELSE {})

----------------------------------------------------------------------------
(* The inputs of a run *)

\* the cache configurations: the 4 x 2 of main.rs:47 and gui.rs:123, a single
\* one-block set, and two direct-mapped sets
Configs == {<<4, 2>>, <<1, 1>>, <<2, 1>>}

\* the instructions programs are made of
Pool ==
    { build_i_type(8, 0, 1, 10),          \* ADDI R1, R0, 10
      build_i_type(8, 0, 2, 20),          \* ADDI R2, R0, 20
      build_r_type(0, 1, 2, 3, 0, 32),    \* ADD  R3, R1, R2
      build_i_type(43, 0, 1, 0),          \* SW   R1, 0(R0)
      build_i_type(35, 0, 2, 0),          \* LW   R2, 0(R0)
      build_i_type(35, 0, 3, 0),          \* LW   R3, 0(R0)
      build_i_type(43, 0, 1, 3),          \* SW   R1, 3(R0)
      build_i_type(35, 0, 2, 3),          \* LW   R2, 3(R0)
      build_i_type(43, 1, 2, 65535),      \* SW   R2, -1(R1)
      build_i_type(35, 1, 1, 65535),      \* LW   R1, -1(R1)
      build_i_type(4, 0, 0, 65534),       \* BEQ  R0, R0, -2
      build_i_type(63, 0, 0, 0) }         \* an unknown opcode

\* the programs: up to ProgLen instructions, or none (the instruction file
\* is missing or empty, memory.rs:59 and 77)
Programs == UNION {[1 .. n -> Pool] : n \in 0 .. ProgLen}

\* the data files: none, or one word at address 3
DataFiles == {<<>>, <<[address |-> 3, value |-> W(5)]>>}

\* the lines of a data file, loaded in order (memory.rs:28-52)
RECURSIVE load_data(_, _, _)
load_data(mem, lines, i) ==
    IF i > Len(lines) THEN mem
    ELSE load_data(read_start_data(mem, lines[i].address, lines[i].value), lines, i + 1)

\* the instructions of a program, loaded in order at addresses 0, 1, ...
\* (memory.rs:55-79, gui.rs:102-110)
RECURSIVE load_instructions(_, _, _)
load_instructions(mem, prog, i) ==
    IF i > Len(prog) THEN mem
    ELSE load_instructions(read_start_instructions(mem, i - 1, prog[i]), prog, i + 1)

\* the memory main.rs:41-43 builds: the data first, then the instructions
load(prog, lines) == load_instructions(load_data(Memory_new, lines, 1), prog, 1)

----------------------------------------------------------------------------
(* The engine driven by step calls, as the graphical front end drives it:  *)
(* run_gui_version sets up memory, engine and cache (main.rs:41-47), and   *)
(* the Step button (gui.rs:157-159) and the timed stepper (gui.rs:185-187) *)
(* call CPU::step through step_cpu (gui.rs:116-118) whatever the PC holds, *)
(* also when no word is mapped at the PC and when the engine is halted.    *)

Init ==
    \E prog \in Programs, lines \in DataFiles, cfg \in Configs :
        /\ cpu = CPU_new
        /\ memory = load(prog, lines)
        /\ cache = Cache_new(cfg[1], cfg[2])
        /\ panicked = FALSE
        /\ twin = NoTwin
        /\ calls = <<>>
        /\ pre = [cpu |-> cpu, memory |-> memory, cache |-> cache]

\* what a step call is seen to do: the state it was made in, the word it
\* fetched and, for LW and SW, the address and the cache's answer
step_call(c, mem, ch) ==
    LET instruction == fetch(c, mem)
        name == IF c.halted THEN "halted" ELSE translate_to_assembly(instruction)
        addr == effective_address(c, instruction)
    IN  [op |-> "step",
         pc |-> c.pc,
         name |-> name,
         instruction |-> instruction,
         addr |-> IF name \in {"LW", "SW"} THEN addr ELSE 0,
         data |-> IF name = "SW" THEN c.registers[rt(instruction)] ELSE W(0),
         hit |-> name = "LW" /\ read(ch, addr).hit]

\* one call of MyApp::step_cpu, which calls CPU::step unconditionally
Step ==
    /\ ~panicked
    /\ Len(calls) < MaxCalls
    /\ \E r \in step_outcomes(cpu, memory, cache) :
           /\ cpu' = r.cpu
           /\ memory' = r.memory
           /\ cache' = r.cache
           /\ panicked' = r.panicked
    /\ calls' = Append(calls, step_call(cpu, memory, cache))
    /\ pre' = [cpu |-> cpu, memory |-> memory, cache |-> cache]
    /\ twin' = twin

Next == Step

Spec == Init /\ [][Next]_vars

----------------------------------------------------------------------------
(* The engine driven by the terminal loop of run_terminal_version, which   *)
(* looks at the PC itself before it calls CPU::step (main.rs:90-161)       *)

\* main.rs:77-83 : memory from the two files, a new CPU, a 4 x 2 cache
InitTerminal ==
    \E prog \in Programs, lines \in DataFiles :
        /\ cpu = CPU_new
        /\ memory = load(prog, lines)
        /\ cache = Cache_new(4, 2)
        /\ panicked = FALSE
        /\ twin = NoTwin
        /\ calls = <<>>
        /\ pre = [cpu |-> cpu, memory |-> memory, cache |-> cache]

\* an iteration of `while !cpu.halted` that finds a word at the PC and calls
\* CPU::step (main.rs:138-153); a `q` at the prompt ends the run where it is
TerminalStep ==
    /\ ~cpu.halted
    /\ cpu.pc \in DOMAIN memory.data
    /\ Step

\* an iteration that finds no word at the PC: no step call, the loop sets
\* halted itself and leaves PC, cycle, registers and cache (main.rs:154-160)
TerminalHalt ==
    /\ ~panicked
    /\ ~cpu.halted
    /\ cpu.pc \notin DOMAIN memory.data
    /\ cpu' = [cpu EXCEPT !.halted = TRUE]
    /\ pre' = [cpu |-> cpu, memory |-> memory, cache |-> cache]
    /\ UNCHANGED <<memory, cache, panicked, calls, twin>>

NextTerminal == TerminalStep \/ TerminalHalt

SpecTerminal == InitTerminal /\ [][NextTerminal]_vars

----------------------------------------------------------------------------
(* The cache driven directly by read and write calls *)

\* the configurations: 4 x 2, where the addresses of the calls share set 0;
\* one set of one block; 8 x 1, where 0 and 8 share set 0 and 4 is in set 4
CacheConfigs == {<<4, 2>>, <<1, 1>>, <<8, 1>>}

\* the addresses and the words of the calls
CacheAddrs == {0, 4, 8}
CacheData == {W(7), W(9)}

InitCache ==
    \E cfg \in CacheConfigs :
        /\ cpu = CPU_new
        /\ memory = Memory_new
        /\ cache = Cache_new(cfg[1], cfg[2])
        /\ panicked = FALSE
        /\ twin = NoTwin
        /\ calls = <<>>
        /\ pre = [cpu |-> cpu, memory |-> memory, cache |-> cache]

\* one call of Cache::read
CacheRead ==
    /\ ~panicked
    /\ Len(calls) < MaxCacheCalls
    /\ \E addr \in CacheAddrs :
          IF get_tag_and_set_panics(cache)
          THEN /\ panicked' = TRUE
               /\ cache' = cache
               /\ calls' = Append(calls, [op |-> "read", addr |-> addr,
                                          data |-> W(0), hit |-> FALSE])
          ELSE LET r == read(cache, addr)
               IN  /\ panicked' = FALSE
                   /\ cache' = r.cache
                   /\ calls' = Append(calls, [op |-> "read", addr |-> addr,
                                              data |-> r.data, hit |-> r.hit])
    /\ pre' = [cpu |-> cpu, memory |-> memory, cache |-> cache]
    /\ twin' = twin
    /\ UNCHANGED <<cpu, memory>>

\* one call of Cache::write
CacheWrite ==
    /\ ~panicked
    /\ Len(calls) < MaxCacheCalls
    /\ \E addr \in CacheAddrs, data \in CacheData :
          /\ panicked' = get_tag_and_set_panics(cache)
          /\ cache' = IF get_tag_and_set_panics(cache) THEN cache
                       ELSE write(cache, addr, data)
          /\ calls' = Append(calls, [op |-> "write", addr |-> addr,
                                     data |-> data, hit |-> FALSE])
    /\ pre' = [cpu |-> cpu, memory |-> memory, cache |-> cache]
    /\ twin' = twin
    /\ UNCHANGED <<cpu, memory>>

NextCache == CacheRead \/ CacheWrite

SpecCache == InitCache /\ [][NextCache]_vars

----------------------------------------------------------------------------
(* The cache with set counts around the width of the u8 set index *)

\* <<num_sets, blocks_per_set>>: the largest count a u8 holds, and beyond
WideConfigs == {<<255, 1>>, <<256, 1>>, <<257, 2>>, <<512, 1>>}

InitWide ==
    \E cfg \in WideConfigs :
        /\ cpu = CPU_new
        /\ memory = Memory_new
        /\ cache = Cache_new(cfg[1], cfg[2])
        /\ panicked = FALSE
        /\ twin = NoTwin
        /\ calls = <<>>
        /\ pre = [cpu |-> cpu, memory |-> memory, cache |-> cache]

SpecWide == InitWide /\ [][NextCache]_vars

----------------------------------------------------------------------------
(* The engine stepped over one instruction, with any operands at any PC *)

\* the register fields, the register contents, the immediates and the PCs
RegFields == {0, 1, 31}
RegValues ==
    { W(0), W(1), W(65535),
      [hi |-> 32767, lo |-> 65535],      \* i32::MAX
      [hi |-> 32768, lo |-> 0],          \* i32::MIN
      [hi |-> 65535, lo |-> 65535] }     \* u32::MAX, -1 as i32
ExecImms ==
    {0, 1, 2, 127, 128, 255, 256, 257, 32767,
     32768, 32769, 65279, 65280, 65281, 65534, 65535}
ExecPcs == {0, 100, 255}

\* ADD, SUB, SLT and two unsupported functions; ADDI, BEQ and two unknown
\* opcodes; LW and SW with three offsets
ExecInstructions ==
    {build_r_type(0, s, t, d, 0, fn) :
        s \in RegFields, t \in RegFields, d \in RegFields, fn \in {32, 34, 42, 0, 33}}
    \cup
    {build_i_type(op, s, t, im) :
        op \in {8, 4, 1, 63}, s \in RegFields, t \in RegFields, im \in ExecImms}
    \cup
    {build_i_type(op, s, t, im) :
        op \in {35, 43}, s \in RegFields, t \in RegFields, im \in {0, 3, 65535}}

\* the register an instruction writes: rd of an R-type, rt of the others
destination(instruction) ==
    IF opcode(instruction) = 0 THEN rd(instruction) ELSE rt(instruction)

\* ADDI R9, Rx, 0 for the register Rx the instruction writes: an instruction
\* that reads, at the next address, what the first has written
reader(instruction) == build_i_type(8, destination(instruction), 9, 0)

\* the engine about to execute the instruction at pc0, reg[rs] = a and
\* reg[rt] = b; or about to fetch from pc0 with nothing loaded at all
InitExec ==
    \E instruction \in ExecInstructions, a \in RegValues, b \in RegValues,
       pc0 \in ExecPcs, loaded \in BOOLEAN :
        /\ loaded \/ (instruction = build_r_type(0, 0, 1, 31, 0, 32) /\ a = W(1))
        /\ cpu = [CPU_new EXCEPT
                     !.pc = pc0,
                     !.registers = [r \in 0 .. 31 |->
                                      IF r = rt(instruction) THEN b
                                      ELSE IF r = rs(instruction) THEN a
                                      ELSE W(0)]]
        /\ memory = IF loaded
                    THEN read_start_instructions(
                             read_start_instructions(Memory_new, pc0, instruction),
                             (pc0 + 1) % 256, reader(instruction))
                    ELSE Memory_new
        /\ cache = Cache_new(4, 2)
        /\ panicked = FALSE
        /\ twin = NoTwin
        /\ calls = <<>>
        /\ pre = [cpu |-> cpu, memory |-> memory, cache |-> cache]

\* one call of CPU::step, of the first ExecCalls
ExecStep == Len(calls) < ExecCalls /\ Step

NextExec == ExecStep

SpecExec == InitExec /\ [][NextExec]_vars

----------------------------------------------------------------------------
(* The application: compile-and-load, step and reset, gui.rs:102-125 *)

\* number of button presses in one run of the application
MaxAppCalls == 4

\* what compile_code yields: ADD and LW rt, offset(R0) words (gui.rs:51-77)
CompiledPrograms ==
    { <<>>,
      << build_i_type(35, 0, 1, 3) >>,                                  \* load r1, 3
      << build_r_type(0, 1, 1, 3, 0, 32) >>,                            \* r3 = r1 + r1
      << build_i_type(35, 0, 1, 3), build_r_type(0, 1, 1, 3, 0, 32) >> }

\* the instruction files the application may have been started on
StartPrograms ==
    { <<>>,
      << build_i_type(8, 0, 1, 10), build_i_type(43, 0, 1, 0), build_i_type(35, 0, 2, 0) >> }

\* MyApp::load_compiled_instructions : the memory after the loop of
\* gui.rs:104-110, which writes the first 64 instructions over what is there
RECURSIVE load_compiled_instructions(_, _, _)
load_compiled_instructions(mem, compiled_instructions, addr) ==
    IF addr >= Len(compiled_instructions) THEN mem
    ELSE load_compiled_instructions(
             IF addr < 64
             THEN read_start_instructions(mem, addr % 256, compiled_instructions[addr + 1])
             ELSE mem,
             compiled_instructions, addr + 1)

\* main.rs:41-47 : memory from the two files, a new CPU, a 4 x 2 cache
InitApp ==
    \E prog \in StartPrograms, lines \in DataFiles :
        /\ cpu = CPU_new
        /\ memory = load(prog, lines)
        /\ cache = Cache_new(4, 2)
        /\ panicked = FALSE
        /\ twin = NoTwin
        /\ calls = <<>>
        /\ pre = [cpu |-> cpu, memory |-> memory, cache |-> cache]

\* the Compile button: gui.rs:149-150, load_compiled_instructions
AppLoad ==
    /\ ~panicked
    /\ Len(calls) < MaxAppCalls
    /\ \E prog \in CompiledPrograms :
          /\ memory' = load_compiled_instructions(memory, prog, 0)
          /\ calls' = Append(calls, [op |-> "load", program |-> prog])
    /\ cpu' = CPU_new
    /\ pre' = [cpu |-> cpu, memory |-> memory, cache |-> cache]
    /\ twin' = twin
    /\ UNCHANGED <<cache, panicked>>

\* the Step button: gui.rs:157-158, step_cpu
AppStep == Len(calls) < MaxAppCalls /\ Step

\* the Reset button: gui.rs:165-166, reset_simulation
AppReset ==
    /\ ~panicked
    /\ Len(calls) < MaxAppCalls
    /\ cpu' = CPU_new
    /\ memory' = Memory_new
    /\ cache' = Cache_new(4, 2)
    /\ calls' = Append(calls, [op |-> "reset"])
    /\ pre' = [cpu |-> cpu, memory |-> memory, cache |-> cache]
    /\ twin' = twin
    /\ UNCHANGED panicked

NextApp == AppLoad \/ AppStep \/ AppReset

SpecApp == InitApp /\ [][NextApp]_vars

----------------------------------------------------------------------------
(* The field extractors applied to words, cpu.rs:28-55 and 104-110 *)

\* number of words decoded in one run
DecodeCalls == 1

\* the upper and the lower halves of the words decoded
HiHalves == {0, 1, 31, 32, 992, 1023, 1024, 8192, 32768, 35873, 36393, 44064, 64512, 65535}
LoHalves == {0, 1, 32, 34, 42, 63, 64, 1984, 2047, 2048, 6506, 32768, 63488, 65535}
Words == {[hi |-> h, lo |-> l] : h \in HiHalves, l \in LoHalves}

InitDecode ==
    /\ cpu = CPU_new
    /\ memory = Memory_new
    /\ cache = Cache_new(4, 2)
    /\ panicked = FALSE
    /\ twin = NoTwin
    /\ calls = <<>>
    /\ pre = [cpu |-> cpu, memory |-> memory, cache |-> cache]

\* the decode of cpu.rs:104-110 applied to one word
Decode ==
    /\ Len(calls) < DecodeCalls
    /\ \E instruction \in Words :
          calls' = Append(calls, [op |-> "decode",
                                  instruction |-> instruction,
                                  opcode |-> opcode(instruction),
                                  rs |-> rs(instruction),
                                  rt |-> rt(instruction),
                                  rd |-> rd(instruction),
                                  shamt |-> shamt(instruction),
                                  funct |-> funct(instruction),
                                  imm |-> imm(instruction)])
    /\ pre' = [cpu |-> cpu, memory |-> memory, cache |-> cache]
    /\ twin' = twin
    /\ UNCHANGED <<cpu, memory, cache, panicked>>

NextDecode == Decode

SpecDecode == InitDecode /\ [][NextDecode]_vars

----------------------------------------------------------------------------
(* The cache used either way: by the engine's steps, or called directly *)

InitUse == Init \/ InitCache

\* a run of step calls
EngineUse ==
    /\ IF calls = <<>> THEN TRUE ELSE calls[1].op = "step"
    /\ Step

\* a run of read and write calls on a cache that no engine uses
CacheUse ==
    /\ memory = Memory_new
    /\ IF calls = <<>> THEN TRUE ELSE calls[1].op # "step"
    /\ (CacheRead \/ CacheWrite)

NextUse == EngineUse \/ CacheUse

SpecUse == InitUse /\ [][NextUse]_vars

----------------------------------------------------------------------------
(* Two runs of the engine on the same input, each with its own cache *)

\* the instructions of the programs run twice
TwinPool ==
    { build_i_type(8, 0, 1, 10),          \* ADDI R1, R0, 10
      build_i_type(43, 0, 1, 0),          \* SW   R1, 0(R0)
      build_i_type(35, 0, 2, 0),          \* LW   R2, 0(R0)
      build_i_type(43, 0, 1, 4),          \* SW   R1, 4(R0)
      build_i_type(35, 0, 2, 4),          \* LW   R2, 4(R0)
      build_i_type(35, 0, 3, 3) }         \* LW   R3, 3(R0)

TwinPrograms == UNION {[1 .. n -> TwinPool] : n \in 0 .. ProgLen}

\* the cache configurations of the first and of the second run
TwinPairs ==
    { << <<4, 2>>, <<1, 1>> >>,
      << <<4, 2>>, <<2, 1>> >>,
      << <<257, 2>>, <<4, 2>> >>,
      << <<1, 1>>, <<256, 1>> >> }

InitTwin ==
    \E prog \in TwinPrograms, lines \in DataFiles, pair \in TwinPairs :
        /\ cpu = CPU_new
        /\ memory = load(prog, lines)
        /\ cache = Cache_new(pair[1][1], pair[1][2])
        /\ panicked = FALSE
        /\ calls = <<>>
        /\ pre = [cpu |-> cpu, memory |-> memory, cache |-> cache]
        /\ twin = [panicked |-> FALSE, cpu |-> cpu, memory |-> memory,
                   cache |-> Cache_new(pair[2][1], pair[2][2])]

\* one call of CPU::step in each of the two runs
TwinStep ==
    /\ ~panicked /\ ~twin.panicked
    /\ Len(calls) < MaxCalls
    /\ \E r \in step_outcomes(cpu, memory, cache) :
           /\ cpu' = r.cpu
           /\ memory' = r.memory
           /\ cache' = r.cache
           /\ panicked' = r.panicked
    /\ twin' \in step_outcomes(twin.cpu, twin.memory, twin.cache)
    /\ calls' = Append(calls, step_call(cpu, memory, cache))
    /\ pre' = [cpu |-> cpu, memory |-> memory, cache |-> cache]

NextTwin == TwinStep

SpecTwin == InitTwin /\ [][NextTwin]_vars

----------------------------------------------------------------------------
(* The engine stepped until it halts, over memories of any extent *)

\* number of step calls in one run: the 256 addresses and one call more
MaxLineCalls == 257

\* the addresses the instruction file maps
LineDomains ==
    { {},
      0 .. 2,
      {0, 1, 2, 4},
      1 .. 3,
      {0} \cup (2 .. 5),
      0 .. 254,
      1 .. 255,
      (0 .. 255) \ {100},
      0 .. 255 }

\* the word the k-th instruction file has at address a: ADDI R1, R1, 1
\* everywhere; SUB R3, R1, R2 and an unknown opcode in turn; the word 5
LineFills == {1, 2, 3}
LineWord(k, a) ==
    CASE k = 1 -> build_i_type(8, 1, 1, 1)
      [] k = 2 -> IF a % 2 = 0 THEN build_r_type(0, 1, 2, 3, 0, 34)
                               ELSE build_i_type(63, 0, 0, 0)
      [] OTHER -> W(5)

\* the memory read_start_instructions builds from a file with one line for
\* each address of dom (memory.rs:55-79)
load_lines(dom, k) ==
    [data  |-> [a \in dom |-> LineWord(k, a)],
     kinds |-> [a \in dom |-> "Instruction"]]

\* BEQ R0, R0, -1 alone at address 0: a program that branches to itself
LoopMemory == read_start_instructions(Memory_new, 0, build_i_type(4, 0, 0, 65535))

InitLine ==
    /\ \/ \E dom \in LineDomains, k \in LineFills : memory = load_lines(dom, k)
       \/ memory = LoopMemory
    /\ cpu = CPU_new
    /\ cache = Cache_new(4, 2)
    /\ panicked = FALSE
    /\ twin = NoTwin
    /\ calls = <<>>
    /\ pre = [cpu |-> cpu, memory |-> memory, cache |-> cache]

\* one call of MyApp::step_cpu (gui.rs:116-118), of the first MaxLineCalls
LineStep ==
    /\ ~panicked
    /\ Len(calls) < MaxLineCalls
    /\ \E r \in step_outcomes(cpu, memory, cache) :
           /\ cpu' = r.cpu
           /\ memory' = r.memory
           /\ cache' = r.cache
           /\ panicked' = r.panicked
    /\ calls' = Append(calls, step_call(cpu, memory, cache))
    /\ pre' = [cpu |-> cpu, memory |-> memory, cache |-> cache]
    /\ twin' = twin

NextLine == LineStep

SpecLine == InitLine /\ [][NextLine]_vars

----------------------------------------------------------------------------
(* Reading the history *)

\* the last call made
LastCall == calls[Len(calls)]

\* the last call was a step that executed the instruction called name
Executed(name) ==
    /\ Len(calls) > 0
    /\ LastCall.op = "step"
    /\ LastCall.name = name

\* the run so far is the first steps of prog, fetched at addresses 0, 1, ...
Ran(prog) ==
    /\ Len(calls) <= Len(prog)
    /\ \A i \in 1 .. Len(calls) :
          /\ calls[i].op = "step"
          /\ calls[i].pc = i - 1
          /\ calls[i].name # "halted"
          /\ calls[i].instruction = prog[i]

\* set s of cache c holds a valid block for address addr with the word data,
\* by the address decomposition set = addr mod N, tag = addr div N
Cached(c, addr, data) ==
    /\ addr % c.num_sets \in DOMAIN c.sets
    /\ \E i \in 1 .. Len(c.sets[addr % c.num_sets].blocks) :
          LET b == c.sets[addr % c.num_sets].blocks[i]
          IN  b.valid /\ b.tag = addr \div c.num_sets /\ b.data = data

\* some valid block of cache c is for address addr
CachedAddr(c, addr) ==
    /\ addr % c.num_sets \in DOMAIN c.sets
    /\ \E i \in 1 .. Len(c.sets[addr % c.num_sets].blocks) :
          LET b == c.sets[addr % c.num_sets].blocks[i]
          IN  b.valid /\ b.tag = addr \div c.num_sets

\* the fraction <<n, d>> equals num / den
RateIs(r, num, den) == r[1] * den = num * r[2]

----------------------------------------------------------------------------
(* C1: the SW / LW / LW scenario *)

\* SW R1,[R0+0] ; LW R2,[R0+0] ; LW R3,[R0+0]
ProgSwLwLw ==
    << build_i_type(43, 0, 1, 0), build_i_type(35, 0, 2, 0), build_i_type(35, 0, 3, 0) >>

\* the three steps of the scenario have been made on a 4 x 2 cache, with
\* nothing but the program loaded
AfterSwLwLw ==
    /\ Len(calls) = 3
    /\ Ran(ProgSwLwLw)
    /\ DOMAIN memory.data = {0, 1, 2}
    /\ cache.num_sets = 4 /\ cache.blocks_per_set = 2

\* C1 as stated: after the three steps of SW R1,[R0+0]; LW R2,[R0+0];
\* LW R3,[R0+0] on a fresh engine and a fresh 4 x 2 cache, the first LW was a
\* miss and the second a hit, hits = 1, misses = 1 and the hit rate is 0.5.
C1_FirstLoadMisses ==
    AfterSwLwLw =>
        /\ ~calls[2].hit
        /\ calls[3].hit
        /\ cache.hits = 1
        /\ cache.misses = 1
        /\ RateIs(get_hit_rate(cache), 1, 2)

\* C1 amended: SW writes through to the cache, so after the three steps both
\* LW were cache hits, hits = 2, misses = 0 and the hit rate is 1.
C1_BothLoadsHit ==
    AfterSwLwLw =>
        /\ calls[2].hit
        /\ calls[3].hit
        /\ cache.hits = 2
        /\ cache.misses = 0
        /\ RateIs(get_hit_rate(cache), 1, 1)

C1_Witness ==
    /\ AfterSwLwLw
    /\ cache.hits + cache.misses = 2
    /\ cache.access_counter = 3

----------------------------------------------------------------------------
(* C2: write then read *)

\* addresses and words the write-then-read pair is tried with in every state
ProbeAddrs == CacheAddrs \cup {1, 255}
ProbeData == CacheData \cup {[hi |-> 65535, lo |-> 65535]}

\* C2: in every reachable cache state, for every address addr and word d,
\* write(addr, d) followed immediately by read(addr) returns (d, true); and
\* whenever the driver made such a pair of calls, that is what read returned.
C2_WriteThenRead ==
    /\ \A addr \in ProbeAddrs, d \in ProbeData :
          LET r == read(write(cache, addr, d), addr)
          IN  r.hit /\ r.data = d
    /\ \A i \in 2 .. Len(calls) :
          (calls[i - 1].op = "write" /\ calls[i].op = "read"
              /\ calls[i].addr = calls[i - 1].addr)
          => (calls[i].hit /\ calls[i].data = calls[i - 1].data)

\* a write that had to evict (one set of one block, already holding another
\* address), then the read of the address written, which hit
C2_Witness ==
    /\ Len(calls) >= 3
    /\ cache.num_sets = 1 /\ cache.blocks_per_set = 1
    /\ calls[Len(calls) - 2].op = "write"
    /\ calls[Len(calls) - 1].op = "write"
    /\ calls[Len(calls) - 1].addr # calls[Len(calls) - 2].addr
    /\ LastCall.op = "read"
    /\ LastCall.addr = calls[Len(calls) - 1].addr
    /\ LastCall.hit
    /\ LastCall.data = calls[Len(calls) - 1].data

----------------------------------------------------------------------------
(* C3: least recently used *)

\* the calls so far are K+1 writes of distinct addresses of one set, K the
\* blocks per set, made on the fresh cache, then reads of those addresses only
LruRun ==
    LET K == cache.blocks_per_set
    IN  /\ Len(calls) >= K + 1
        /\ \A i \in 1 .. K + 1 : calls[i].op = "write"
        /\ \A i, j \in 1 .. K + 1 :
              /\ calls[i].addr % cache.num_sets = calls[j].addr % cache.num_sets
              /\ (i # j => calls[i].addr # calls[j].addr)
        /\ \A i \in K + 2 .. Len(calls) :
              /\ calls[i].op = "read"
              /\ \E j \in 1 .. K + 1 : calls[i].addr = calls[j].addr

\* the addresses the valid blocks of set s of cache c are for
AddrsIn(c, s) ==
    {c.sets[s].blocks[i].tag * c.num_sets + s :
        i \in {j \in 1 .. Len(c.sets[s].blocks) : c.sets[s].blocks[j].valid}}

\* C3: after writes of K+1 distinct addresses of one set into the empty set,
\* in order, exactly the address written first has been evicted: the set holds
\* the other K, a read of the first is a miss and reads of the others are hits.
C3_LruEvictsFirstWritten ==
    LruRun =>
        LET K == cache.blocks_per_set
            s == calls[1].addr % cache.num_sets
        IN  /\ AddrsIn(cache, s) = {calls[j].addr : j \in 2 .. K + 1}
            /\ ~read(cache, calls[1].addr).hit
            /\ \A j \in 2 .. K + 1 : read(cache, calls[j].addr).hit
            /\ \A i \in K + 2 .. Len(calls) :
                  calls[i].hit <=> calls[i].addr # calls[1].addr

\* two blocks per set: three writes, then the read of the first address
\* written, which missed
C3_Witness ==
    /\ LruRun
    /\ cache.blocks_per_set = 2
    /\ Len(calls) = 4
    /\ LastCall.addr = calls[1].addr
    /\ ~LastCall.hit

----------------------------------------------------------------------------
(* C4, C5: SW *)

\* the effective address of the instruction of the last call, as the
\* specification words it: (reg[rs] + sign_extend16(imm)) mod 256, over the
\* registers the call was made with
SpecAddr ==
    LET i == LastCall.instruction
    IN  (pre.cpu.registers[rs(i)].lo + as_i16(imm(i))) % 256

\* the register rt of the instruction of the last call, before the call
SpecRt == pre.cpu.registers[rt(LastCall.instruction)]

\* C4: after a step executing SW with addr = (reg[rs] + sign_extend16(imm))
\* mod 256, memory holds reg[rt] at addr, the cache holds a valid block for
\* addr with data reg[rt], a cache read of addr made next is a hit returning
\* reg[rt], and PC has advanced by 1.
C4_SwStoresAndWritesThrough ==
    Executed("SW") =>
        /\ SpecAddr \in DOMAIN memory.data
        /\ memory.data[SpecAddr] = SpecRt
        /\ Cached(cache, SpecAddr, SpecRt)
        /\ read(cache, SpecAddr).hit
        /\ read(cache, SpecAddr).data = SpecRt
        /\ cpu.pc = (pre.cpu.pc + 1) % 256

\* SW R2, -1(R1) with R1 = 0 and R2 = 20: the address wraps to 255, the word
\* stored is not 0, and the set of the address was full before the step
C4_Witness ==
    /\ Executed("SW")
    /\ SpecAddr = 255
    /\ SpecRt = W(20)
    /\ memory.data[255] = W(20)
    /\ Cached(cache, 255, W(20))
    /\ 255 \notin DOMAIN pre.memory.data
    /\ Len(pre.cache.sets[255 % cache.num_sets].blocks) = cache.blocks_per_set

\* C5 as stated: after a step executing SW to addr, the kind tag of addr in
\* memory is Data, whatever it was before.
C5_SwTagsData ==
    Executed("SW") =>
        /\ SpecAddr \in DOMAIN memory.kinds
        /\ memory.kinds[SpecAddr] = "Data"

----------------------------------------------------------------------------
(* C6: every occupied address carries a kind tag *)

\* C6 as stated: every address of the word mapping is an address of the kind
\* mapping.
C6_EveryWordTagged ==
    \A a \in DOMAIN memory.data : a \in DOMAIN memory.kinds

----------------------------------------------------------------------------
(* C7: the halting rule *)

\* C7: a step made in state Running ends Halted if and only if, after the
\* effects of the instruction, memory has no word at the new PC, whatever the
\* kind tags say.
C7_HaltsIffNoWordAtPc ==
    (Len(calls) > 0 /\ LastCall.op = "step" /\ ~pre.cpu.halted) =>
        (cpu.halted <=> cpu.pc \notin DOMAIN memory.data)

\* a LW miss created the word at the new PC in the very step: the engine
\* runs on, though the address was empty before the step and has no kind tag
C7_Witness ==
    /\ Executed("LW")
    /\ ~LastCall.hit
    /\ LastCall.addr = cpu.pc
    /\ cpu.pc \notin DOMAIN pre.memory.data
    /\ cpu.pc \in DOMAIN memory.data
    /\ cpu.pc \notin DOMAIN memory.kinds
    /\ ~cpu.halted

----------------------------------------------------------------------------
(* C8: Halted is absorbing *)

\* C8: a step call made in state Halted changed nothing of the engine, the
\* memory and the cache; and step applied to the present state with halted
\* set (as main.rs:156 sets it), returns it unchanged, also when memory has a
\* word at PC.
C8_HaltedStepChangesNothing ==
    /\ (Len(calls) > 0 /\ LastCall.op = "step" /\ pre.cpu.halted) =>
          (cpu = pre.cpu /\ memory = pre.memory /\ cache = pre.cache)
    /\ LET h == [cpu EXCEPT !.halted = TRUE]
       IN  step(h, memory, cache) = [cpu |-> h, memory |-> memory, cache |-> cache]

\* a step call was made in state Halted
C8_Witness ==
    /\ Len(calls) > 1
    /\ LastCall.op = "step"
    /\ LastCall.name = "halted"
    /\ pre.cpu.halted
    /\ cpu.cycle = pre.cpu.cycle
    /\ cache.access_counter > 0

----------------------------------------------------------------------------
(* C9: the ADDI / ADDI / ADD scenario *)

\* ADDI R1, R0, 10 ; ADDI R2, R0, 20 ; ADD R3, R1, R2
ProgAddiAddiAdd ==
    << build_i_type(8, 0, 1, 10), build_i_type(8, 0, 2, 20),
       build_r_type(0, 1, 2, 3, 0, 32) >>

\* the run is the scenario's: its program at 0, 1, 2 and nothing else loaded
InAddiAddiAdd ==
    /\ memory = load(ProgAddiAddiAdd, <<>>)
    /\ Ran(ProgAddiAddiAdd)

\* C9: from the initial state with the program at 0, 1, 2 and nothing at 3,
\* after three steps reg[3] = 30, the cycle count is 3 and the engine is
\* halted; it was not halted after the first or the second step.
C9_AddiAddiAdd ==
    InAddiAddiAdd =>
        /\ Len(calls) = 0 =>
              /\ ~cpu.halted /\ cpu.pc = 0 /\ cpu.cycle = 0
              /\ \A r \in 0 .. 31 : cpu.registers[r] = W(0)
        /\ Len(calls) \in {1, 2} => ~cpu.halted
        /\ Len(calls) = 3 =>
              /\ cpu.registers[3] = W(30)
              /\ cpu.cycle = 3
              /\ cpu.halted

C9_Witness ==
    /\ InAddiAddiAdd
    /\ Len(calls) = 3
    /\ cpu.registers[1] = W(10)
    /\ cpu.registers[2] = W(20)
    /\ cpu.pc = 3

----------------------------------------------------------------------------
(* C10: LW from an untouched address *)

\* C10: when the effective address of LW is absent from memory and not
\* cached, the step creates it in memory with the word 0, fills the cache
\* with a valid block for it holding 0, sets reg[rt] = 0 and adds exactly 1
\* to misses, leaving hits unchanged.
C10_LwFromUntouchedAddress ==
    (Executed("LW") /\ SpecAddr \notin DOMAIN pre.memory.data
                    /\ ~CachedAddr(pre.cache, SpecAddr)) =>
        /\ SpecAddr \in DOMAIN memory.data
        /\ memory.data[SpecAddr] = W(0)
        /\ Cached(cache, SpecAddr, W(0))
        /\ cpu.registers[rt(LastCall.instruction)] = W(0)
        /\ cache.misses = pre.cache.misses + 1
        /\ cache.hits = pre.cache.hits

\* LW R2, 3(R0) with nothing at address 3, when R2 held 20
C10_Witness ==
    /\ Executed("LW")
    /\ SpecAddr = 3
    /\ 3 \notin DOMAIN pre.memory.data
    /\ ~CachedAddr(pre.cache, 3)
    /\ pre.cpu.registers[2] = W(20)
    /\ rt(LastCall.instruction) = 2
    /\ cpu.registers[2] = W(0)
    /\ memory.data[3] = W(0)

----------------------------------------------------------------------------
(* C11: LW *)

\* C11: with addr the low 8 bits of reg[rs] + sign_extend16(imm), LW makes
\* exactly one cache read, of addr; on a hit reg[rt] becomes the cached data
\* and memory is unchanged; on a miss with addr present in memory reg[rt]
\* becomes memory[addr] and the cache is filled with (addr, memory[addr]); in
\* all cases PC advances by 1.
C11_LwSemantics ==
    (Executed("LW") /\ ~panicked) =>
        /\ cache.hits + cache.misses = pre.cache.hits + pre.cache.misses + 1
        /\ cache.hits = pre.cache.hits + 1 <=> CachedAddr(pre.cache, SpecAddr)
        /\ LastCall.hit <=> CachedAddr(pre.cache, SpecAddr)
        /\ CachedAddr(pre.cache, SpecAddr) =>
              /\ Cached(pre.cache, SpecAddr, cpu.registers[rt(LastCall.instruction)])
              /\ memory = pre.memory
        /\ (~CachedAddr(pre.cache, SpecAddr) /\ SpecAddr \in DOMAIN pre.memory.data) =>
              /\ cpu.registers[rt(LastCall.instruction)] = pre.memory.data[SpecAddr]
              /\ Cached(cache, SpecAddr, pre.memory.data[SpecAddr])
        /\ cpu.pc = (pre.cpu.pc + 1) % 256

\* LW R2, 3(R0) twice with the word 5 loaded at address 3: the first missed
\* and filled the cache from memory, the second hit and loaded 5 again
C11_Witness ==
    /\ Len(calls) = 2
    /\ calls[1].op = "step" /\ calls[1].name = "LW" /\ ~calls[1].hit
    /\ calls[1].addr = 3
    /\ Executed("LW")
    /\ LastCall.hit
    /\ SpecAddr = 3
    /\ pre.memory.data[3] = W(5)
    /\ Cached(pre.cache, 3, W(5))
    /\ cpu.registers[2] = W(5)

----------------------------------------------------------------------------
(* C12: hit and miss accounting *)

\* the calls of the kind op made so far
CallsOf(op) == {i \in 1 .. Len(calls) : calls[i].op = op}

\* C12: hits and misses never decrease; a read call adds 1 to exactly one of
\* them (hits if it returned a hit, misses if not), a write call changes
\* neither; so hits + misses is the number of read calls made.
C12_HitMissAccounting ==
    /\ cache.hits >= pre.cache.hits
    /\ cache.misses >= pre.cache.misses
    /\ (Len(calls) > 0 /\ LastCall.op = "read") =>
          \/ LastCall.hit /\ cache.hits = pre.cache.hits + 1
                           /\ cache.misses = pre.cache.misses
          \/ ~LastCall.hit /\ cache.hits = pre.cache.hits
                            /\ cache.misses = pre.cache.misses + 1
    /\ (Len(calls) > 0 /\ LastCall.op = "write") =>
          (cache.hits = pre.cache.hits /\ cache.misses = pre.cache.misses)
    /\ cache.hits + cache.misses = Cardinality(CallsOf("read"))
    /\ cache.hits = Cardinality({i \in CallsOf("read") : calls[i].hit})

\* a read that missed, a write, a read that hit and one more write
C12_Witness ==
    /\ Len(calls) = 4
    /\ Cardinality(CallsOf("write")) = 2
    /\ LastCall.op = "write"
    /\ cache.hits = 1
    /\ cache.misses = 1

----------------------------------------------------------------------------
(* Single instructions over all operands *)

\* the instruction of the last call and its operands before the call
LastInstruction == LastCall.instruction
RsBefore == pre.cpu.registers[rs(LastInstruction)]
RtBefore == pre.cpu.registers[rt(LastInstruction)]

\* the 16-bit immediate field of the last instruction, as an unsigned number
ImmField == LastInstruction.lo

\* the PC the claim gives a BEQ step
SpecBranchPc ==
    IF RsBefore # RtBefore THEN (pre.cpu.pc + 1) % 256
    ELSE IF ImmField < 32768
         THEN (pre.cpu.pc + 1 + ImmField) % 256
         ELSE (pre.cpu.pc + 1 - (65536 - ImmField)) % 256

\* C13: every BEQ step completes without fault, changes no register, and
\* sets PC to (PC + 1 + k) mod 256 for equal operands and an immediate k >= 0,
\* to (PC + 1 - k) mod 256 for equal operands and an immediate -k, and to
\* (PC + 1) mod 256 for unequal operands.
C13_BranchCorrectness ==
    Executed("BEQ") =>
        /\ ~panicked
        /\ cpu.registers = pre.cpu.registers
        /\ cpu.pc = SpecBranchPc

\* the same for every immediate but -32768, and for -32768 when the step
\* completes: the PC and the registers are as claimed
BranchCorrectWhenCompleted ==
    (Executed("BEQ") /\ ~panicked) =>
        /\ cpu.registers = pre.cpu.registers
        /\ cpu.pc = SpecBranchPc

\* a BEQ completes whenever its immediate is not -32768
BranchCompletesExceptMinImm ==
    (Executed("BEQ") /\ ImmField # 32768) => ~panicked

\* a BEQ with equal operands branched backwards from PC 0 and wrapped
BranchBackwardsWrapped ==
    /\ Executed("BEQ") /\ ~panicked
    /\ RsBefore = RtBefore /\ ImmField = 65534
    /\ pre.cpu.pc = 0 /\ cpu.pc = 255

\* 32-bit arithmetic stated on another decomposition of a word: its two top
\* bits and its thirty low bits
TwoTo30 == 16384 * 65536
Split(w) == [top |-> w.hi \div 16384, low |-> (w.hi % 16384) * 65536 + w.lo]
SumMod32(a, b) ==
    LET l == a.low + b.low
    IN  [top |-> (a.top + b.top + l \div TwoTo30) % 4, low |-> l % TwoTo30]
DiffMod32(a, b) ==
    LET l == a.low - b.low
    IN  [top |-> (a.top - b.top - (IF l < 0 THEN 1 ELSE 0)) % 4, low |-> l % TwoTo30]
SignedLess(a, b) ==
    LET stop(x) == IF x.top >= 2 THEN x.top - 4 ELSE x.top
    IN  stop(a) < stop(b) \/ (stop(a) = stop(b) /\ a.low < b.low)

\* C14: every ADD step sets reg[rd] = (reg[rs] + reg[rt]) mod 2^32 and every
\* SUB step sets reg[rd] = (reg[rs] - reg[rt]) mod 2^32, from the operand
\* values before the step (also when rd is rs or rt), without fault, and
\* advances PC by 1.
C14_AddSubWrap ==
    /\ Executed("ADD") =>
          /\ ~panicked
          /\ Split(cpu.registers[rd(LastInstruction)])
                = SumMod32(Split(RsBefore), Split(RtBefore))
          /\ cpu.pc = (pre.cpu.pc + 1) % 256
    /\ Executed("SUB") =>
          /\ ~panicked
          /\ Split(cpu.registers[rd(LastInstruction)])
                = DiffMod32(Split(RsBefore), Split(RtBefore))
          /\ cpu.pc = (pre.cpu.pc + 1) % 256

\* SUB R0, R0, R1 with R0 = 0 and R1 = 1 left 0xFFFFFFFF in R0
C14_Witness ==
    /\ Executed("SUB")
    /\ LastInstruction = build_r_type(0, 0, 1, 0, 0, 34)
    /\ RsBefore = W(0) /\ RtBefore = W(1)
    /\ cpu.registers[0] = [hi |-> 65535, lo |-> 65535]

\* the sign extension of the immediate field, on the decomposition above
SpecSext ==
    IF ImmField < 32768
    THEN [top |-> 0, low |-> ImmField]
    ELSE [top |-> 3, low |-> TwoTo30 - (65536 - ImmField)]

\* C15: every ADDI step, whatever rs and rt (register 0 included), sets
\* reg[rt] = (reg[rs] + sign_extend16(imm)) mod 2^32, which for a negative
\* immediate -k is (reg[rs] - k) mod 2^32; and an instruction that reads the
\* written register next reads the written value.
C15_AddiSignExtends ==
    /\ Executed("ADDI") =>
          /\ ~panicked
          /\ Split(cpu.registers[rt(LastInstruction)])
                = SumMod32(Split(RsBefore), SpecSext)
          /\ ImmField >= 32768 =>
                Split(cpu.registers[rt(LastInstruction)])
                   = DiffMod32(Split(RsBefore), [top |-> 0, low |-> 65536 - ImmField])
    /\ (/\ Len(calls) = 2
        /\ calls[1].name = "ADDI"
        /\ calls[2].name = "ADDI"
        /\ calls[2].instruction = reader(calls[1].instruction)) =>
          cpu.registers[9] = pre.cpu.registers[rt(calls[1].instruction)]

\* ADDI R0, R1, -1 with R1 = 0 wrote 0xFFFFFFFF to register 0, and the
\* ADDI R9, R0, 0 after it read that value
C15_Witness ==
    /\ Len(calls) = 2
    /\ calls[1].instruction = build_i_type(8, 1, 0, 65535)
    /\ calls[2].name = "ADDI"
    /\ calls[2].instruction = build_i_type(8, 0, 9, 0)
    /\ pre.cpu.registers[0] = [hi |-> 65535, lo |-> 65535]
    /\ cpu.registers[0] = [hi |-> 65535, lo |-> 65535]
    /\ cpu.registers[9] = [hi |-> 65535, lo |-> 65535]

\* C16: every SLT step sets reg[rd] to 1 when reg[rs] is less than reg[rt],
\* both read as two's-complement signed 32-bit values, and to 0 otherwise,
\* and advances PC by 1.
C16_SltSigned ==
    Executed("SLT") =>
        /\ ~panicked
        /\ cpu.registers[rd(LastInstruction)]
              = (IF SignedLess(Split(RsBefore), Split(RtBefore)) THEN W(1) ELSE W(0))
        /\ cpu.pc = (pre.cpu.pc + 1) % 256

\* SLT R31, R0, R1 with R0 = 0xFFFFFFFF and R1 = 1 wrote 1
C16_Witness ==
    /\ Executed("SLT")
    /\ LastInstruction = build_r_type(0, 0, 1, 31, 0, 42)
    /\ RsBefore = [hi |-> 65535, lo |-> 65535] /\ RtBefore = W(1)
    /\ cpu.registers[31] = W(1)

\* the word a step fetched, and whether it is one the engine does not support
FetchedWord ==
    IF pre.cpu.pc \in DOMAIN pre.memory.data THEN pre.memory.data[pre.cpu.pc] ELSE W(0)
UnsupportedWord(w) ==
    LET op == w.hi \div 1024
        fn == w.lo % 64
    IN  op \notin {0, 4, 8, 35, 43} \/ (op = 0 /\ fn \notin {32, 34, 42})
SteppedUnsupported ==
    /\ Len(calls) > 0
    /\ LastCall.op = "step"
    /\ ~pre.cpu.halted
    /\ UnsupportedWord(FetchedWord)

\* C17: a step of a running engine that fetches an unsupported word (unknown
\* opcode, unknown R-type function, or word 0 from an unmapped PC) completes,
\* leaves registers, memory and cache as they were, sets PC to (PC + 1) mod 256
\* and adds 1 to the cycle count.
C17_UnsupportedSkipped ==
    SteppedUnsupported =>
        /\ ~panicked
        /\ cpu.registers = pre.cpu.registers
        /\ memory = pre.memory
        /\ cache = pre.cache
        /\ cpu.pc = (pre.cpu.pc + 1) % 256
        /\ cpu.cycle = pre.cpu.cycle + 1

\* a step at PC 255 with nothing loaded there went on to PC 0
C17_Witness ==
    /\ SteppedUnsupported
    /\ pre.cpu.pc = 255
    /\ 255 \notin DOMAIN pre.memory.data
    /\ cpu.pc = 0
    /\ cpu.cycle = pre.cpu.cycle + 1
    /\ cpu.registers[1] = W(1)

----------------------------------------------------------------------------
(* The cache: faults, capacity, address decomposition *)

\* C18: whatever num_sets >= 1 and blocks_per_set >= 1 the cache was built
\* with (num_sets of 256 or more included), every read and write call on an
\* 8-bit address completes without fault.
C18_CacheOperationsComplete ==
    \A i \in 1 .. Len(calls) :
        calls[i].op \in {"read", "write"} => ~panicked

\* with a set count that is no multiple of 256 the calls do complete
CacheCompletesUnlessMultipleOf256 ==
    cache.num_sets % 256 # 0 => ~panicked

\* C20: with N sets, a completed write(addr, data) leaves a valid block with
\* tag addr div N and the data in set addr mod N, and a completed read(addr)
\* hits exactly when set addr mod N held a valid block with tag addr div N.
C20_AddressDecomposition ==
    (Len(calls) > 0 /\ ~panicked) =>
        /\ LastCall.op = "write" => Cached(cache, LastCall.addr, LastCall.data)
        /\ LastCall.op = "read" => (LastCall.hit <=> CachedAddr(pre.cache, LastCall.addr))

\* the same holds of every cache whose set count a u8 holds
DecompositionHoldsUpTo255 ==
    cache.num_sets <= 255 => C20_AddressDecomposition

\* the number of valid blocks of set s of cache c
ValidBlocks(c, s) ==
    Cardinality({i \in 1 .. Len(c.sets[s].blocks) : c.sets[s].blocks[i].valid})

\* C19: after any sequence of read and write calls, every set holds at most
\* blocks_per_set valid blocks.
C19_SetCapacity ==
    \A s \in DOMAIN cache.sets : ValidBlocks(cache, s) <= cache.blocks_per_set

\* two blocks per set: three writes of distinct addresses of set 0 were made,
\* and the set holds two valid blocks
C19_Witness ==
    /\ cache.num_sets = 4 /\ cache.blocks_per_set = 2
    /\ Len(calls) >= 3
    /\ \A i \in 1 .. 3 : calls[i].op = "write"
    /\ {calls[i].addr : i \in 1 .. 3} = {0, 4, 8}
    /\ ValidBlocks(cache, 0) = 2

----------------------------------------------------------------------------
(* The application's reset points *)

\* a new CPU: registers, PC and cycle zero, not halted
CpuIsReset ==
    /\ \A r \in 0 .. 31 : cpu.registers[r] = W(0)
    /\ cpu.pc = 0 /\ cpu.cycle = 0 /\ ~cpu.halted

\* a fresh empty cache: no blocks, counters zero
CacheIsFresh ==
    /\ \A s \in DOMAIN cache.sets : cache.sets[s].blocks = <<>>
    /\ cache.hits = 0 /\ cache.misses = 0 /\ cache.access_counter = 0

\* C21: right after a program load, memory holds the loaded program and
\* nothing else, the cache is fresh and empty and the CPU is reset; right after
\* an explicit reset, memory is empty, the cache is fresh and empty and the
\* CPU is reset.
C21_ResetOnLoad ==
    /\ (Len(calls) > 0 /\ LastCall.op = "load") =>
          /\ CpuIsReset
          /\ CacheIsFresh
          /\ DOMAIN memory.data = 0 .. Len(LastCall.program) - 1
          /\ \A a \in DOMAIN memory.data : memory.data[a] = LastCall.program[a + 1]
    /\ (Len(calls) > 0 /\ LastCall.op = "reset") =>
          /\ CpuIsReset
          /\ CacheIsFresh
          /\ memory = Memory_new

\* the explicit reset does replace all three
ResetReplacesAll ==
    (Len(calls) > 0 /\ LastCall.op = "reset") =>
        CpuIsReset /\ CacheIsFresh /\ memory = Memory_new

\* a program load resets the CPU, but keeps the cache and every word the
\* new program does not overwrite
LoadResetsCpuOnly ==
    (Len(calls) > 0 /\ LastCall.op = "load") =>
        /\ CpuIsReset
        /\ cache = pre.cache
        /\ \A a \in DOMAIN pre.memory.data :
              a >= Len(LastCall.program) =>
                 (a \in DOMAIN memory.data /\ memory.data[a] = pre.memory.data[a])

----------------------------------------------------------------------------
(* The instruction layout *)

\* C22: the fields extracted from any word w are within their widths
\* (opcode and funct six bits, rs, rt, rd and shamt five, imm sixteen) and
\* recompose it: w = opcode*2^26 + rs*2^21 + rt*2^16 + rd*2^11 + shamt*2^6 +
\* funct = opcode*2^26 + rs*2^21 + rt*2^16 + imm, stated on the two halves
\* w = hi*2^16 + lo.
C22_FieldLayout ==
    \A i \in 1 .. Len(calls) :
        calls[i].op = "decode" =>
            LET d == calls[i]
                w == d.instruction
            IN  /\ d.opcode \in 0 .. 63 /\ d.funct \in 0 .. 63
                /\ d.rs \in 0 .. 31 /\ d.rt \in 0 .. 31
                /\ d.rd \in 0 .. 31 /\ d.shamt \in 0 .. 31
                /\ d.imm \in 0 .. 65535
                /\ w.hi = d.opcode * 1024 + d.rs * 32 + d.rt
                /\ w.lo = d.rd * 2048 + d.shamt * 64 + d.funct
                /\ w.lo = d.imm

\* the word 0x8E29196A was decoded into opcode 35, rs 17, rt 9, rd 3,
\* shamt 5, funct 42, imm 0x196A
C22_Witness ==
    /\ Len(calls) > 0
    /\ LastCall.op = "decode"
    /\ LastCall.instruction = [hi |-> 36393, lo |-> 6506]
    /\ LastCall.opcode = 35 /\ LastCall.rs = 17 /\ LastCall.rt = 9
    /\ LastCall.rd = 3 /\ LastCall.shamt = 5 /\ LastCall.funct = 42
    /\ LastCall.imm = 6506

----------------------------------------------------------------------------
(* The cache: victim selection and frame conditions *)

\* the last call was a completed write / read of the cache driver
Wrote == Len(calls) > 0 /\ LastCall.op = "write" /\ ~panicked
ReadCall == Len(calls) > 0 /\ LastCall.op = "read" /\ ~panicked

\* the set of the last call's address before the call, and its blocks
CallSet == LastCall.addr % pre.cache.num_sets
CallTag == LastCall.addr \div pre.cache.num_sets
BlocksBefore == pre.cache.sets[CallSet].blocks

\* the lowest index among the blocks with the smallest last_used
Oldest(blocks) ==
    CHOOSE i \in 1 .. Len(blocks) :
        /\ \A j \in 1 .. Len(blocks) : blocks[i].last_used <= blocks[j].last_used
        /\ \A j \in 1 .. i - 1 : blocks[j].last_used > blocks[i].last_used

\* the position in the log of the most recent access (write or read hit)
\* to address a before the last call
LastAccess(a) ==
    LET acc == {i \in 1 .. Len(calls) - 1 :
                   calls[i].addr = a /\ (calls[i].op = "write" \/ calls[i].hit)}
    IN  IF acc = {} THEN 0 ELSE CHOOSE i \in acc : \A j \in acc : j <= i

\* block sequences with equal last_used values, for the scan alone
TiedBlocks ==
    UNION {[1 .. n -> {[tag |-> 0, data |-> W(0), valid |-> TRUE, last_used |-> u] :
                          u \in {1, 2}}] : n \in 1 .. 3}

\* C23: a write of an address absent from its full set overwrites exactly the
\* block with the smallest last_used, which is the block whose latest access
\* (write or read hit) is the oldest, with tag, data, valid = true and
\* last_used = access_counter; among equal last_used values the scan takes
\* the lowest index.
C23_LruVictim ==
    /\ (/\ Wrote
        /\ Len(BlocksBefore) = pre.cache.blocks_per_set
        /\ ~CachedAddr(pre.cache, LastCall.addr)) =>
          LET v == Oldest(BlocksBefore)
              victim == BlocksBefore[v].tag * pre.cache.num_sets + CallSet
          IN  /\ cache.access_counter = pre.cache.access_counter + 1
              /\ cache.sets[CallSet].blocks =
                    [BlocksBefore EXCEPT
                        ![v] = [tag |-> CallTag, data |-> LastCall.data,
                                valid |-> TRUE, last_used |-> cache.access_counter]]
              /\ \A a \in AddrsIn(pre.cache, CallSet) \ {victim} :
                    LastAccess(victim) < LastAccess(a)
    /\ \A blocks \in TiedBlocks : lru_scan(blocks, 1, 1, -1) = Oldest(blocks)

\* 4 x 2: write 0, write 4, read 0 (a hit), write 8: the write evicted
\* address 4, not address 0 which was written first but read since
C23_Witness ==
    /\ Wrote
    /\ cache.num_sets = 4 /\ cache.blocks_per_set = 2
    /\ Len(calls) = 4
    /\ calls[1].op = "write" /\ calls[1].addr = 0
    /\ calls[2].op = "write" /\ calls[2].addr = 4
    /\ calls[3].op = "read" /\ calls[3].addr = 0 /\ calls[3].hit
    /\ calls[4].addr = 8
    /\ AddrsIn(cache, 0) = {0, 8}

\* C24: a read that misses (returns 0 and false) leaves the blocks of every
\* set and hits as they were, and adds 1 to misses and 1 to access_counter.
C24_ReadMissFrame ==
    (ReadCall /\ ~LastCall.hit) =>
        /\ LastCall.data = W(0)
        /\ cache.sets = pre.cache.sets
        /\ cache.hits = pre.cache.hits
        /\ cache.misses = pre.cache.misses + 1
        /\ cache.access_counter = pre.cache.access_counter + 1

\* 4 x 2 : address 0 was written, then the read of address 4 missed in the
\* set that holds address 0
C24_Witness ==
    /\ ReadCall /\ ~LastCall.hit
    /\ cache.num_sets = 4
    /\ LastCall.addr = 4
    /\ AddrsIn(pre.cache, 0) = {0}
    /\ AddrsIn(cache, 0) = {0}
    /\ cache.misses = pre.cache.misses + 1

\* the index of the valid block with the call's tag in the call's set
BlockOfCall ==
    CHOOSE i \in 1 .. Len(BlocksBefore) :
        BlocksBefore[i].valid /\ BlocksBefore[i].tag = CallTag

\* C25: a write of an address whose block is in the cache changes only that
\* block's data and last_used: every other block of the set and every other
\* set stay as they were, and no block is added or evicted, full set or not.
C25_WriteInPlace ==
    (Wrote /\ CachedAddr(pre.cache, LastCall.addr)) =>
        /\ DOMAIN cache.sets = DOMAIN pre.cache.sets
        /\ \A s \in DOMAIN cache.sets \ {CallSet} : cache.sets[s] = pre.cache.sets[s]
        /\ Len(cache.sets[CallSet].blocks) = Len(BlocksBefore)
        /\ \A i \in 1 .. Len(BlocksBefore) :
              IF i = BlockOfCall
              THEN cache.sets[CallSet].blocks[i] =
                      [BlocksBefore[i] EXCEPT
                          !.data = LastCall.data,
                          !.last_used = pre.cache.access_counter + 1]
              ELSE cache.sets[CallSet].blocks[i] = BlocksBefore[i]

\* 4 x 2 : with addresses 0 and 4 filling set 0, address 4 (the more
\* recently used of the two) was written again with another word
C25_Witness ==
    /\ Wrote
    /\ cache.num_sets = 4 /\ cache.blocks_per_set = 2
    /\ Len(calls) = 3
    /\ calls[1].op = "write" /\ calls[1].addr = 0
    /\ calls[2].op = "write" /\ calls[2].addr = 4 /\ calls[2].data = W(7)
    /\ calls[3].addr = 4 /\ calls[3].data = W(9)
    /\ Cached(cache, 0, calls[1].data)
    /\ Cached(cache, 4, W(9))

----------------------------------------------------------------------------
(* The cache clock *)

\* the number of calls of the log that satisfy P
CountCalls(P(_)) == Cardinality({i \in 1 .. Len(calls) : P(calls[i])})

\* the read calls and the write calls made so far: directly, or by the
\* engine (a LW reads and on a miss writes the fill, a SW writes)
IsRead(c) == c.op = "read" \/ (c.op = "step" /\ c.name = "LW")
IsWrite(c) == c.op = "write" \/ (c.op = "step" /\ c.name = "SW")
IsFill(c) == c.op = "step" /\ c.name = "LW" /\ ~c.hit
IsSw(c) == c.op = "step" /\ c.name = "SW"
EngineOnly == \A i \in 1 .. Len(calls) : calls[i].op = "step"

\* C26: every read call and every write call, hit or miss, adds exactly 1
\* to access_counter, so access_counter is the number of read calls plus the
\* number of write calls; when only the engine uses the cache that is
\* hits + 2 * misses + the number of SW steps.
C26_AccessCounterClock ==
    ~panicked =>
        /\ cache.access_counter
              = CountCalls(IsRead) + CountCalls(IsWrite) + CountCalls(IsFill)
        /\ (Len(calls) > 0 /\ LastCall.op \in {"read", "write"}) =>
              cache.access_counter = pre.cache.access_counter + 1
        /\ EngineOnly =>
              cache.access_counter = cache.hits + 2 * cache.misses + CountCalls(IsSw)

\* the engine ran a LW that missed, a LW that hit and a SW: the clock is 4
C26_Witness ==
    /\ EngineOnly
    /\ Len(calls) = 3
    /\ calls[1].name = "LW" /\ ~calls[1].hit
    /\ calls[2].name = "LW" /\ calls[2].hit
    /\ calls[3].name = "SW"
    /\ cache.hits = 1 /\ cache.misses = 1
    /\ cache.access_counter = 4

----------------------------------------------------------------------------
(* What a step may touch *)

\* the addresses at which Backing Memory differs from before the last call
ChangedAddresses ==
    {a \in (DOMAIN memory.data) \cup (DOMAIN pre.memory.data) :
        \/ (a \in DOMAIN memory.data) # (a \in DOMAIN pre.memory.data)
        \/ /\ a \in DOMAIN memory.data
           /\ a \in DOMAIN pre.memory.data
           /\ memory.data[a] # pre.memory.data[a]}

\* C27: a step that executes ADD, SUB, SLT, ADDI, BEQ or an unsupported
\* instruction leaves Backing Memory and the whole cache as they were; a step
\* that changed memory or cache executed LW or SW, and changed Backing Memory
\* at one address at most.
C27_OnlyLwSwTouchMemory ==
    (Len(calls) > 0 /\ LastCall.op = "step") =>
        /\ (~panicked /\ LastCall.name \in
               {"ADD", "SUB", "SLT", "ADDI", "BEQ", "R-type", "Unknown"}) =>
              (memory = pre.memory /\ cache = pre.cache)
        /\ (memory # pre.memory \/ cache # pre.cache) => LastCall.name \in {"LW", "SW"}
        /\ Cardinality(ChangedAddresses) <= 1

\* a SW stored a word and filled the cache, and the ADDI after it left both
\* as the SW had left them
C27_Witness ==
    /\ Len(calls) = 2
    /\ calls[1].name = "SW"
    /\ calls[2].name = "ADDI"
    /\ ~panicked
    /\ calls[1].addr \in DOMAIN memory.data
    /\ cache.access_counter = 1
    /\ memory = pre.memory /\ cache = pre.cache
    /\ cpu.cycle = 2

----------------------------------------------------------------------------
(* Coherence and transparency of the cache *)

\* every valid block of cache c, with tag t in set s, holds the word memory
\* mem holds at address t * num_sets + s
Coherent(c, mem) ==
    \A s \in DOMAIN c.sets :
        \A i \in 1 .. Len(c.sets[s].blocks) :
            LET b == c.sets[s].blocks[i]
                a == b.tag * c.num_sets + s
            IN  b.valid => (a \in DOMAIN mem.data /\ mem.data[a] = b.data)

\* C28: from an empty cache and any preloaded memory, after any sequence of
\* step calls every valid block with tag t in set s holds the word Backing
\* Memory holds at address t * num_sets + s, which is present there.
C28_CacheCoherence == Coherent(cache, memory)

\* the same holds of every cache whose set count a u8 holds
CoherentUpTo255 == cache.num_sets <= 255 => Coherent(cache, memory)

\* C29: two runs on the same preloaded memory with different cache
\* configurations agree, after every step, on registers, PC, cycle count,
\* halted flag and Backing Memory, and neither run is aborted alone.
C29_CacheTransparency ==
    /\ cpu = twin.cpu
    /\ memory = twin.memory
    /\ panicked <=> twin.panicked

\* the runs agree whenever neither set count is a multiple of 256
TransparentUnlessMultipleOf256 ==
    (cache.num_sets % 256 # 0 /\ twin.cache.num_sets % 256 # 0) =>
        (cpu = twin.cpu /\ memory = twin.memory /\ ~panicked /\ ~twin.panicked)

\* a 4 x 2 run and a 1 x 1 run whose caches differ while the engines agree
TwinsDifferInCacheOnly ==
    /\ Len(calls) >= 3
    /\ cache.num_sets = 4 /\ twin.cache.num_sets = 1
    /\ cache.hits # twin.cache.hits
    /\ cpu = twin.cpu /\ memory = twin.memory

----------------------------------------------------------------------------
(* Halting and the fetch *)

\* C30: in every state reached by at least one step call, halted is true
\* exactly when Backing Memory has no entry at PC; so an engine that has
\* stepped and is still running has a word at PC, and only the first step
\* can fetch from an unmapped PC.
C30_HaltedIffUnmapped ==
    (Len(calls) > 0 /\ \A i \in 1 .. Len(calls) : calls[i].op = "step") =>
        /\ cpu.halted <=> cpu.pc \notin DOMAIN memory.data
        /\ ~cpu.halted => cpu.pc \in DOMAIN memory.data
        /\ (Len(calls) >= 2 /\ ~pre.cpu.halted) => pre.cpu.pc \in DOMAIN pre.memory.data

\* the last of three instructions, LW R2, 3(R0), created the word 0 at
\* address 3, so that PC 3 is mapped and the engine runs on
C30_Witness ==
    /\ Len(calls) = 3
    /\ calls[3].name = "LW" /\ calls[3].addr = 3 /\ calls[3].pc = 2
    /\ 3 \notin DOMAIN pre.memory.data
    /\ cpu.pc = 3
    /\ 3 \in DOMAIN memory.data /\ memory.data[3] = W(0)
    /\ ~cpu.halted

----------------------------------------------------------------------------
(* The cache: the blocks it can hold *)

\* the blocks of cache c, each named by its set and its index in the set
BlocksOf(c) ==
    UNION {{<<s, i>> : i \in 1 .. Len(c.sets[s].blocks)} : s \in DOMAIN c.sets}
BlockAt(c, b) == c.sets[b[1]].blocks[b[2]]

\* C31: after any sequence of read and write calls on a new cache, the
\* last_used values of the blocks are pairwise distinct and lie between 1 and
\* access_counter; so in every set the smallest last_used belongs to one
\* block only, and the scan's lowest-index rule never decides.
C31_NoLruTies ==
    /\ \A b \in BlocksOf(cache) :
          /\ BlockAt(cache, b).last_used >= 1
          /\ BlockAt(cache, b).last_used <= cache.access_counter
    /\ \A b1 \in BlocksOf(cache), b2 \in BlocksOf(cache) :
          b1 # b2 => BlockAt(cache, b1).last_used # BlockAt(cache, b2).last_used
    /\ \A s \in DOMAIN cache.sets :
          LET blocks == cache.sets[s].blocks
          IN  blocks # <<>> =>
                 Cardinality({i \in 1 .. Len(blocks) :
                                 blocks[i].last_used = blocks[Oldest(blocks)].last_used}) = 1

\* 4 x 2 : after a write, a read hit of the address, another write of it and
\* the write of a second address, set 0 holds two blocks stamped 3 and 4
C31_Witness ==
    /\ cache.num_sets = 4 /\ cache.blocks_per_set = 2
    /\ Len(calls) = 4 /\ ~panicked
    /\ calls[1].op = "write"
    /\ calls[2].op = "read" /\ calls[2].hit
    /\ calls[3].op = "write" /\ calls[3].addr = calls[1].addr
    /\ calls[4].op = "write" /\ calls[4].addr # calls[1].addr
    /\ {BlockAt(cache, b).last_used : b \in BlocksOf(cache)} = {3, 4}

\* C32: after any sequence of read and write calls every stored block is
\* valid and no two blocks of a set carry the same tag, so an address is
\* cached in at most one block; and a read reports a hit only when a valid
\* block for the address was there, returning that block's word.
C32_NoDuplicateOrInvalidBlocks ==
    /\ \A b \in BlocksOf(cache) : BlockAt(cache, b).valid
    /\ \A b1 \in BlocksOf(cache), b2 \in BlocksOf(cache) :
          (b1 # b2 /\ b1[1] = b2[1]) => BlockAt(cache, b1).tag # BlockAt(cache, b2).tag
    /\ \A addr \in ProbeAddrs :
          Cardinality({b \in BlocksOf(cache) :
                          /\ b[1] = addr % cache.num_sets
                          /\ BlockAt(cache, b).tag = addr \div cache.num_sets}) <= 1
    /\ (ReadCall /\ LastCall.hit) => Cached(pre.cache, LastCall.addr, LastCall.data)

\* 4 x 2 : address 0 was written twice with different words and address 4
\* once; set 0 holds one block for each, and the read of address 0 hit
C32_Witness ==
    /\ cache.num_sets = 4 /\ cache.blocks_per_set = 2
    /\ Len(calls) = 4
    /\ calls[1].op = "write" /\ calls[1].addr = 0 /\ calls[1].data = W(7)
    /\ calls[2].op = "write" /\ calls[2].addr = 0 /\ calls[2].data = W(9)
    /\ calls[3].op = "write" /\ calls[3].addr = 4
    /\ calls[4].op = "read" /\ calls[4].addr = 0 /\ calls[4].hit /\ calls[4].data = W(9)
    /\ Len(cache.sets[0].blocks) = 2

----------------------------------------------------------------------------
(* Straight-line programs *)

\* no word of memory mem is a BEQ, a LW or a SW, and some address is unmapped
StraightLine(mem) ==
    /\ \A a \in DOMAIN mem.data : mem.data[a].hi \div 1024 \notin {4, 35, 43}
    /\ DOMAIN mem.data # 0 .. 255

\* the first unmapped address in the cyclic order 1, 2, ..., 255, 0, and its
\* place in that order
FirstUnmapped(mem) ==
    CHOOSE a \in (0 .. 255) \ DOMAIN mem.data :
        \A b \in (0 .. 255) \ DOMAIN mem.data : (a - 1) % 256 <= (b - 1) % 256
StepsToHalt(mem) == ((FirstUnmapped(mem) - 1) % 256) + 1

\* C33: from the initial state, with no BEQ, LW or SW in memory and some
\* address unmapped, the engine is halted after as many steps as it takes the
\* PC to reach the first unmapped address in the order 1, 2, ..., 255, 0, at
\* most 256; it is running before, and from then on halted with PC at that
\* address and the cycle count equal to the steps it took.
C33_StraightLineHalts ==
    StraightLine(memory) =>
        LET n == Len(calls)
            h == StepsToHalt(memory)
        IN  /\ ~panicked
            /\ memory = pre.memory
            /\ h <= 256
            /\ n < h => (~cpu.halted /\ cpu.pc = n /\ cpu.cycle = n)
            /\ n >= h => (/\ cpu.halted
                         /\ cpu.pc = FirstUnmapped(memory)
                         /\ cpu.cycle = h)

\* with address 0 alone unmapped, the 256th step left PC 255 for PC 0 and
\* halted the engine there
C33_Witness ==
    /\ DOMAIN memory.data = 1 .. 255
    /\ Len(calls) = 256
    /\ pre.cpu.pc = 255 /\ ~pre.cpu.halted
    /\ cpu.halted /\ cpu.pc = 0 /\ cpu.cycle = 256

\* the program that branches to itself is still running after 256 steps
LoopNeverHalts ==
    (memory = LoopMemory) => (~cpu.halted /\ cpu.pc = 0 /\ cpu.cycle = Len(calls))

----------------------------------------------------------------------------
(* The terminal loop *)

\* the terminal loop calls step only on a running engine with a word at the
\* PC; with nothing at address 0 it halts at PC 0 and cycle 0 without a call
TerminalStepsOnlyMappedWords ==
    /\ \A i \in 1 .. Len(calls) :
          calls[i].name # "halted" /\ calls[i].pc \in DOMAIN memory.data
    /\ cpu.cycle = Len(calls)
    /\ (0 \notin DOMAIN memory.data /\ cpu.halted) =>
          (cpu.pc = 0 /\ cpu.cycle = 0 /\ calls = <<>> /\ cache = Cache_new(4, 2))

\* the loop halted an engine that made no step
TerminalHaltedWithoutStep ==
    /\ cpu.halted /\ ~pre.cpu.halted
    /\ calls = <<>>
    /\ cpu.pc = 0 /\ cpu.cycle = 0

====
